---- MODULE Spec2Model ----
(***************************************************************************)
(* The coin registry and transaction processor of package tx               *)
(* (src/db/db.go, lines 347-611): add, remove, the script template         *)
(* decoders and Add, run by several threads against the one registry; and  *)
(* the storage wrapper of package db (src/db/db.go, lines 29-317): the     *)
(* encoding of values and keys, and the calls on a bolt database.          *)
(***************************************************************************)
EXTENDS Integers, Sequences, FiniteSets, TLC

(***************************************************************************)
(* Bounds of the model.                                                    *)
(***************************************************************************)
\* Threads calling Add concurrently.
NThreads == 2
\* Add calls started in one behaviour, over all threads.
MaxCalls == 3
\* Wallet-owned keys 1..NOwned of KeyBodyLen bytes; key NOwned+1 is a valid key the
\* wallet does not own.
NOwned == 2
\* Bytes of a serialized public key after its format byte.
KeyBodyLen == 2
\* Bytes of the R and of the S component in the signature scripts used as inputs.
SigIntLen == 2

(***************************************************************************)
(* Program constants.                                                      *)
(***************************************************************************)
opDUP == 118
opHASH160 == 169
opEQUALVERIFY == 136
opCHECKSIG == 172
\* Script.HashLength must be 0x14 (checkTxout).
HashLength14 == 20
\* Script.PubHash has the tag len:"20".
PubHashLen == 20
\* zero := make([]byte, 32)
HashLen == 32
\* A uint32 is the pair of its 16-bit halves, high half first.
Half == 65535
U32(n) == <<n \div (Half + 1), n % (Half + 1)>>
\* in.Index == 0xffffffff
MaxUint32 == <<Half, Half>>
Prefix30 == 48
Prefix02 == 2
Postfix01 == 1

Byte == 0..255

NoErr == "nil"

(***************************************************************************)
(* msg.Unpack: the positional decoder.  A template is a sequence of field  *)
(* kinds: "byte" (one byte), "fixed" (n bytes), "var" (as many bytes as    *)
(* the byte field before it says).  It fails when the buffer is shorter    *)
(* than a field needs; the bytes it did not consume stay in the buffer.    *)
(***************************************************************************)
FByte == [kind |-> "byte", n |-> 1]
FFixed(n) == [kind |-> "fixed", n |-> n]
FVar == [kind |-> "var", n |-> 0]

RECURSIVE UnpackFrom(_, _, _, _)
UnpackFrom(buf, tmpl, k, acc) ==
  IF k > Len(tmpl) THEN [ok |-> TRUE, f |-> acc, rest |-> buf]
  ELSE LET fd == tmpl[k]
           need == IF fd.kind = "var" THEN acc[k - 1] ELSE fd.n
       IN IF Len(buf) < need
          THEN [ok |-> FALSE, f |-> acc, rest |-> <<>>]
          ELSE LET val == IF fd.kind = "byte" THEN buf[1] ELSE SubSeq(buf, 1, need)
               IN UnpackFrom(SubSeq(buf, need + 1, Len(buf)), tmpl, k + 1, Append(acc, val))

Unpack(buf, tmpl) == UnpackFrom(buf, tmpl, 1, <<>>)

(***************************************************************************)
(* The four templates (struct field order).                                *)
(***************************************************************************)
\* SigLength Prefix30 RSLength PrefixR02 RLength R PrefixL02 SLength S
ScriptSigH == <<FByte, FByte, FByte, FByte, FByte, FVar, FByte, FByte, FVar>>
\* Postfix01 Length Pubkey
ScriptSigT == <<FByte, FByte, FVar>>
\* Dup Hash160 HashLength PubHash EqualVerify CheckSig
Script == <<FByte, FByte, FByte, FFixed(PubHashLen), FByte, FByte>>
\* Length Pubkey CheckSig
Script2 == <<FByte, FVar, FByte>>

(***************************************************************************)
(* parse, parseScriptsigH, parseScriptsigT.                                *)
(***************************************************************************)
parse(tmpl, data) ==
  LET u == Unpack(data, tmpl)
  IN IF ~u.ok THEN [err |-> "this tx is not supported(unknown format)", s |-> <<>>]
     ELSE IF Len(u.rest) # 0 THEN [err |-> "this tx is not supported", s |-> <<>>]
     ELSE [err |-> NoErr, s |-> u.f]

parseScriptsigH_NoOldTypeCheck(data) ==
  LET u == Unpack(data, ScriptSigH)
  IN IF ~u.ok THEN [err |-> "this tx is not supported(unknown format)", buf |-> <<>>]
     ELSE IF u.f[2] # Prefix30 \/ u.f[4] # Prefix02 \/ u.f[7] # Prefix02
          THEN [err |-> "unsuported scriptsig", buf |-> <<>>]
     ELSE [err |-> NoErr, buf |-> u.rest]

parseScriptsigH(data) ==
  LET u == Unpack(data, ScriptSigH)
  IN IF ~u.ok THEN [err |-> "this tx is not supported(unknown format)", buf |-> <<>>]
     ELSE IF Len(u.rest) = 0 THEN [err |-> "old type of scriptsig, ignoring", buf |-> <<>>]
     ELSE IF u.f[2] # Prefix30 \/ u.f[4] # Prefix02 \/ u.f[7] # Prefix02
          THEN [err |-> "unsuported scriptsig", buf |-> <<>>]
     ELSE [err |-> NoErr, buf |-> u.rest]

parseScriptsigT(buf) ==
  LET u == Unpack(buf, ScriptSigT)
  IN IF ~u.ok THEN [err |-> "this tx is not supported(unknown format)", s |-> <<>>]
     ELSE IF Len(u.rest) # 0 THEN [err |-> "this tx is not supported", s |-> <<>>]
     ELSE [err |-> NoErr, s |-> u.f]

(***************************************************************************)
(* Package key: public keys, their serialization, and what the wallet      *)
(* owns.  A public key value is a number; 0 stands for no key.             *)
(***************************************************************************)
\* Key NOwned+2 is a wallet-owned key whose serialization is as long as PubHashLen + 3
\* bytes, so that its pay-to-public-key script has the length of a
\* pay-to-public-key-hash script.
LongKey == NOwned + 2
Keys == 1..(NOwned + 2)
OwnedKeys == (1..NOwned) \cup {LongKey}
NoKey == 0

\* Bytes of key k after its format byte.
BodyLen(k) == IF k = LongKey THEN PubHashLen + 2 ELSE KeyBodyLen

\* pub.Serialize(): a format byte, then the key's bytes.
Serialize(k) == <<2>> \o [j \in 1..BodyLen(k) |-> 16 * k + j]

\* The 20-byte hash of a key.
PubHashOf(k) == [j \in 1..PubHashLen |-> 100 + k]

\* key.NewPublicKey(bytes): the key these bytes serialize, or an error.
NewPublicKey(b) ==
  IF \E k \in Keys : Serialize(k) = b
  THEN [err |-> NoErr, key |-> CHOOSE k \in Keys : Serialize(k) = b]
  ELSE [err |-> "invalid public key", key |-> NoKey]

\* key.HasPubkey(pubkey)
HasPubkey(k) == k \in OwnedKeys

\* key.HasPubHash(hash): (pubkey, has)
HasPubHash(h) ==
  IF \E k \in OwnedKeys : PubHashOf(k) = h
  THEN [key |-> CHOOSE k \in OwnedKeys : PubHashOf(k) = h, has |-> TRUE]
  ELSE [key |-> NoKey, has |-> FALSE]

(***************************************************************************)
(* checkTxin, checkTxout, checkTxout2.                                     *)
(***************************************************************************)
checkTxin_NoSighashCheck(s) ==
  LET p == NewPublicKey(s[3])
  IN IF p.err # NoErr THEN [err |-> p.err, key |-> NoKey]
     ELSE IF ~HasPubkey(p.key) THEN [err |-> "not concerened address", key |-> NoKey]
     ELSE [err |-> NoErr, key |-> p.key]

checkTxin(s) ==
  IF s[1] # Postfix01 THEN [err |-> "unsuported scriptsig", key |-> NoKey]
  ELSE LET p == NewPublicKey(s[3])
       IN IF p.err # NoErr THEN [err |-> p.err, key |-> NoKey]
          ELSE IF ~HasPubkey(p.key) THEN [err |-> "not concerened address", key |-> NoKey]
          ELSE [err |-> NoErr, key |-> p.key]

checkTxout_NoEqualVerifyCheck(s) ==
  IF s[1] # opDUP \/ s[2] # opHASH160 \/ s[3] # HashLength14 \/ s[6] # opCHECKSIG
  THEN [err |-> "unsuported scriptsig", key |-> NoKey]
  ELSE LET r == HasPubHash(s[4])
       IN IF ~r.has THEN [err |-> "not concerened address", key |-> NoKey]
          ELSE [err |-> NoErr, key |-> r.key]

checkTxout(s) ==
  IF s[1] # opDUP \/ s[2] # opHASH160 \/ s[3] # HashLength14
     \/ s[5] # opEQUALVERIFY \/ s[6] # opCHECKSIG
  THEN [err |-> "unsuported scriptsig", key |-> NoKey]
  ELSE LET r == HasPubHash(s[4])
       IN IF ~r.has THEN [err |-> "not concerened address", key |-> NoKey]
          ELSE [err |-> NoErr, key |-> r.key]

checkTxout2(s) ==
  IF s[3] # opCHECKSIG THEN [err |-> "unsuported scriptsig", key |-> NoKey]
  ELSE LET p == NewPublicKey(s[2])
       IN IF p.err # NoErr THEN [err |-> p.err, key |-> NoKey]
          ELSE IF ~HasPubkey(p.key) THEN [err |-> "not concerened address", key |-> NoKey]
          ELSE [err |-> NoErr, key |-> p.key]

(***************************************************************************)
(* Transactions (msg.Tx): TxIn is a sequence of [Hash, Index, Script],     *)
(* TxOut a sequence of [Value, Script].  Hash(tx) is the 32-byte           *)
(* transaction hash.                                                       *)
(***************************************************************************)
Hash(tx) == [j \in 1..HashLen |-> tx.id]

\* zero := make([]byte, 32)
zero == [j \in 1..HashLen |-> 0]

(***************************************************************************)
(* Encodings of the templates, used to build the scripts the               *)
(* transactions carry.                                                     *)
(***************************************************************************)
EncScript(h) == <<opDUP, opHASH160, HashLength14>> \o h \o <<opEQUALVERIFY, opCHECKSIG>>
EncScript2(blob) == <<Len(blob)>> \o blob \o <<opCHECKSIG>>
EncScriptSigH(r, s) ==
  <<Len(r) + Len(s) + 7, Prefix30, Len(r) + Len(s) + 4, Prefix02, Len(r)>> \o r
    \o <<Prefix02, Len(s)>> \o s
EncScriptSigT(blob) == <<Postfix01, Len(blob)>> \o blob
EncScriptSig(r, s, blob) == EncScriptSigH(r, s) \o EncScriptSigT(blob)

\* s with the byte at position p replaced by v.
Patch(s, p, v) == [s EXCEPT ![p] = v]

SigR == [j \in 1..SigIntLen |-> 10 + j]
SigS == [j \in 1..SigIntLen |-> 20 + j]
\* Positions of the fixed markers in a signature script built from SigR and SigS.
PosPrefix30 == 2
PosPrefixR02 == 4
PosPrefixL02 == 6 + SigIntLen
PosPostfix01 == 8 + 2 * SigIntLen

NotOwnedKey == NOwned + 1

SigOf(k) == EncScriptSig(SigR, SigS, Serialize(k))

(***************************************************************************)
(* The transactions the threads process.                                   *)
(*  1: a coinbase transaction paying keys 1 and 2, with one unrecognized   *)
(*     output between recognized ones;                                     *)
(*  2: spends output 0 of transaction 1 (after an old-type signature       *)
(*     script) and pays key 2 and a key that is not owned;                 *)
(*  3: inputs and outputs that fail one check each, then a good output.    *)
(***************************************************************************)
Tx1 ==
  [id |-> 1,
   TxIn |-> << [Hash |-> zero, Index |-> MaxUint32, Script |-> <<3, 1, 2, 3>>] >>,
   TxOut |-> << [Value |-> 50, Script |-> EncScript(PubHashOf(1))],
                [Value |-> 7, Script |-> <<106, 1, 0>>],
                [Value |-> 20, Script |-> EncScript2(Serialize(1))],
                [Value |-> 30, Script |-> EncScript(PubHashOf(2))] >>]

Tx2 ==
  [id |-> 2,
   TxIn |-> << [Hash |-> Hash(Tx1), Index |-> U32(0), Script |-> EncScriptSigH(SigR, SigS)],
               [Hash |-> Hash(Tx1), Index |-> U32(0), Script |-> SigOf(1)] >>,
   TxOut |-> << [Value |-> 5, Script |-> EncScript2(Serialize(2))],
                [Value |-> 9, Script |-> EncScript(PubHashOf(NotOwnedKey))] >>]

Tx3 ==
  [id |-> 3,
   TxIn |-> << [Hash |-> zero, Index |-> U32(0), Script |-> SigOf(1)],
               [Hash |-> Hash(Tx1), Index |-> U32(0),
                Script |-> Patch(SigOf(1), PosPrefix30, Prefix30 + 1)],
               [Hash |-> Hash(Tx1), Index |-> U32(0),
                Script |-> Patch(SigOf(1), PosPostfix01, Postfix01 + 1)],
               [Hash |-> Hash(Tx1), Index |-> U32(2), Script |-> SigOf(NotOwnedKey)] >>,
   TxOut |-> << [Value |-> 8, Script |-> Patch(EncScript(PubHashOf(1)), 1, opDUP + 1)],
                [Value |-> 6, Script |-> EncScript2(Serialize(NotOwnedKey))],
                [Value |-> 11, Script |-> EncScript(PubHashOf(1))] >>]

Txs == <<Tx1, Tx2, Tx3>>
TxIds == 1..Len(Txs)

(***************************************************************************)
(* State.                                                                  *)
(***************************************************************************)
VARIABLES
  coins,    \* the registry: serialized key -> sequence of coins (map[string]Coins)
  mutex,    \* the thread holding the registry lock, or NoThread
  pc,       \* per thread: where it is in Add ("in", "remove", "removing", "removed",
            \* "out", "add", "adding", "return") or "idle"
  cur,      \* per thread: id of the transaction it processes (0: none)
  idx,      \* per thread: position of the input or output it is at (from 1)
  pend,     \* per thread: arguments of the add or remove it is in
  loc,      \* per thread: the coin list it read under the lock
  log,      \* per thread: the lines the current Add call logged, with their item
  ret,      \* per thread: what its last Add call returned
  calls,    \* Add calls started so far
  nAdd,     \* add calls completed so far
  nRemOk,   \* remove calls that returned nil so far
  seen,     \* per thread: the items the current Add call is through, and what it
            \* did with each ("skip", "add", "remove", "notfound")
  dscript,  \* decoder harness: the script under decode
  dres,     \* decoder harness: the decoders' results for dscript
  db,       \* package db: the buckets of the database, each a map from key to value
  dbres     \* package db: the last call and what it returned

vars == <<coins, mutex, pc, cur, idx, pend, loc, log, ret, calls, nAdd, nRemOk, seen,
          dscript, dres, db, dbres>>

\* The state of package db.
dbvars == <<db, dbres>>

Threads == 1..NThreads
NoThread == 0
NoPend == [key |-> NoKey, ttype |-> 0]

(***************************************************************************)
(* What the input loop of Add does with one input, up to the call of       *)
(* remove: the line it logs and whether it goes on to remove.              *)
(***************************************************************************)
InputOutcome(in) ==
  IF in.Hash = zero /\ in.Index = MaxUint32
  THEN [remove |-> FALSE, key |-> NoKey, msg |-> "coinbase"]
  ELSE LET h == parseScriptsigH(in.Script)
       IN IF h.err # NoErr THEN [remove |-> FALSE, key |-> NoKey, msg |-> h.err]
          ELSE LET t == parseScriptsigT(h.buf)
               IN IF t.err # NoErr THEN [remove |-> FALSE, key |-> NoKey, msg |-> t.err]
                  ELSE LET c == checkTxin(t.s)
                       IN IF c.err # NoErr
                          THEN [remove |-> FALSE, key |-> NoKey, msg |-> c.err]
                          ELSE [remove |-> TRUE, key |-> c.key, msg |-> NoErr]

OutputOutcome_NoFallback(out) ==
  LET r1 == parse(Script, out.Script)
  IN IF r1.err = NoErr
     THEN LET c == checkTxout(r1.s)
          IN [add |-> c.err = NoErr, key |-> c.key, ttype |-> 0,
              msgs |-> <<"pubkeyhash scriptsig">>
                       \o (IF c.err = NoErr THEN <<>> ELSE <<c.err>>)]
     ELSE [add |-> FALSE, key |-> NoKey, ttype |-> 0,
           msgs |-> <<r1.err, "This txout is not supproted">>]

(***************************************************************************)
(* What the output loop of Add does with one output, up to the call of     *)
(* add: the lines it logs, and the key and type it adds a coin for.  When  *)
(* neither template parses, log.Println(err, err2) writes the two errors   *)
(* on one line, with a space between them.                                 *)
(***************************************************************************)
OutputOutcome(out) ==
  LET r1 == parse(Script, out.Script)
      r2 == parse(Script2, out.Script)
  IN IF r1.err = NoErr
     THEN LET c == checkTxout(r1.s)
          IN [add |-> c.err = NoErr, key |-> c.key, ttype |-> 0,
              msgs |-> <<"pubkeyhash scriptsig">>
                       \o (IF c.err = NoErr THEN <<>> ELSE <<c.err>>)]
     ELSE IF r2.err = NoErr
     THEN LET c == checkTxout2(r2.s)
          IN [add |-> c.err = NoErr, key |-> c.key, ttype |-> 1,
              msgs |-> <<"pubkey scriptsig">>
                       \o (IF c.err = NoErr THEN <<>> ELSE <<c.err>>)]
     ELSE [add |-> FALSE, key |-> NoKey, ttype |-> 0,
           msgs |-> <<r1.err \o " " \o r2.err, "This txout is not supproted">>]

(***************************************************************************)
(* The outcome of an item depends on its script, hash and index only: the  *)
(* outcomes of the inputs and outputs of the transactions, by transaction  *)
(* and position.                                                           *)
(***************************************************************************)
InputOutcomes ==
  [id \in TxIds |-> [i \in 1..Len(Txs[id].TxIn) |-> InputOutcome(Txs[id].TxIn[i])]]

OutputOutcomes ==
  [id \in TxIds |-> [i \in 1..Len(Txs[id].TxOut) |-> OutputOutcome(Txs[id].TxOut[i])]]

(***************************************************************************)
(* The registry operations.                                                *)
(***************************************************************************)
\* coins[a], which is the empty list when a has no entry.
Lookup(a) == IF a \in DOMAIN coins THEN coins[a] ELSE <<>>

Store_DeletesEmpty(a, l) ==
  IF l = <<>> THEN [b \in DOMAIN coins \ {a} |-> coins[b]]
  ELSE [b \in DOMAIN coins \cup {a} |-> IF b = a THEN l ELSE coins[b]]

\* coins[a] = l
Store(a, l) == [b \in DOMAIN coins \cup {a} |-> IF b = a THEN l ELSE coins[b]]

NewCoin_IndexFromOne(k, tx, index, ttype) ==
  [Addr |-> Serialize(k), TxHash |-> Hash(tx), TxIndex |-> U32(index + 1),
   Value |-> tx.TxOut[index + 1].Value, Ttype |-> ttype]

NewCoin_ValueOfFirstOutput(k, tx, index, ttype) ==
  [Addr |-> Serialize(k), TxHash |-> Hash(tx), TxIndex |-> U32(index),
   Value |-> tx.TxOut[1].Value, Ttype |-> ttype]

\* The coin add builds for output index (from 0) of tx.
NewCoin(k, tx, index, ttype) ==
  [Addr |-> Serialize(k), TxHash |-> Hash(tx), TxIndex |-> U32(index),
   Value |-> tx.TxOut[index + 1].Value, Ttype |-> ttype]

Matches_IgnoresIndex(coin, hash, index) ==
  {i \in 1..Len(coin) : coin[i].TxHash = hash}

Matches_IgnoresHash(coin, hash, index) ==
  {i \in 1..Len(coin) : coin[i].TxIndex = index}

\* The positions of coin matching (hash, index), in scan order.
Matches(coin, hash, index) ==
  {i \in 1..Len(coin) : coin[i].TxHash = hash /\ coin[i].TxIndex = index}

FirstMatch(coin, hash, index) ==
  CHOOSE i \in Matches(coin, hash, index) : \A j \in Matches(coin, hash, index) : i <= j

SwapRemove_DropsLast(coin, i) == SubSeq(coin, 1, Len(coin) - 1)

SwapRemove_NoShrink(coin, i) == [coin EXCEPT ![i] = coin[Len(coin)]]

\* coin[i] = coin[len(coin)-1]; coin = coin[:len(coin)-1]
SwapRemove(coin, i) == SubSeq([coin EXCEPT ![i] = coin[Len(coin)]], 1, Len(coin) - 1)

\* append(coins[string(a)], c)
addTo(coin, c) == Append(coin, c)

\* The error of remove.
errNotFound == "coin was not found"

\* remove's scan of the list coin: the list it stores and the error it returns.
removeFrom(coin, hash, index) ==
  IF Matches(coin, hash, index) = {}
  THEN [err |-> errNotFound, coin |-> coin]
  ELSE [err |-> NoErr, coin |-> SwapRemove(coin, FirstMatch(coin, hash, index))]

CanLock_NoMutex(t) == TRUE

\* mutex.Lock() returns
CanLock(t) == mutex = NoThread

(***************************************************************************)
(* The place in Add after the item at (where, i) of tx: the next input,    *)
(* the first output, the next output, or the return.                       *)
(***************************************************************************)
After(tx, where, i) ==
  IF where = "in" /\ i < Len(tx.TxIn) THEN [pc |-> "in", idx |-> i + 1]
  ELSE IF where = "in" /\ Len(tx.TxOut) > 0 THEN [pc |-> "out", idx |-> 1]
  ELSE IF where = "out" /\ i < Len(tx.TxOut) THEN [pc |-> "out", idx |-> i + 1]
  ELSE [pc |-> "return", idx |-> 0]

Did(where, i, what) == [where |-> where, item |-> i, did |-> what]

Entry(where, i, msg) == [where |-> where, item |-> i, msg |-> msg]

Logged(where, i, msgs) == [j \in 1..Len(msgs) |-> Entry(where, i, msgs[j])]

Goto(t, p) ==
  /\ pc' = [pc EXCEPT ![t] = p.pc]
  /\ idx' = [idx EXCEPT ![t] = p.idx]

(***************************************************************************)
(* Add(mtx), step by step.                                                 *)
(***************************************************************************)
\* A thread calls Add(Txs[id]).
Start(t, id) ==
  /\ pc[t] = "idle"
  /\ calls < MaxCalls
  /\ calls' = calls + 1
  /\ cur' = [cur EXCEPT ![t] = id]
  /\ log' = [log EXCEPT ![t] = <<>>]
  /\ ret' = [ret EXCEPT ![t] = "running"]
  /\ Goto(t, IF Len(Txs[id].TxIn) > 0 THEN [pc |-> "in", idx |-> 1]
             ELSE After(Txs[id], "in", 0))
  /\ seen' = [seen EXCEPT ![t] = <<>>]
  /\ UNCHANGED <<coins, mutex, pend, loc, nAdd, nRemOk, dscript, dres, db, dbres>>

Input_ReturnsOnError(t) ==
  /\ pc[t] = "in"
  /\ LET tx == Txs[cur[t]]
         o == InputOutcomes[cur[t]][idx[t]]
     IN IF o.remove
        THEN /\ pend' = [pend EXCEPT ![t] = [key |-> o.key, ttype |-> 0]]
             /\ pc' = [pc EXCEPT ![t] = "remove"]
             /\ UNCHANGED <<idx, log, seen>>
        ELSE /\ log' = [log EXCEPT ![t] = Append(@, Entry("in", idx[t], o.msg))]
             /\ seen' = [seen EXCEPT ![t] = Append(@, Did("in", idx[t], "skip"))]
             /\ Goto(t, [pc |-> "return", idx |-> 0])
             /\ UNCHANGED pend
  /\ UNCHANGED <<coins, mutex, cur, loc, ret, calls, nAdd, nRemOk, dscript, dres, db, dbres>>

\* One pass of the input loop up to remove: skip the input, or go on to remove.
Input(t) ==
  /\ pc[t] = "in"
  /\ LET tx == Txs[cur[t]]
         o == InputOutcomes[cur[t]][idx[t]]
     IN IF o.remove
        THEN /\ pend' = [pend EXCEPT ![t] = [key |-> o.key, ttype |-> 0]]
             /\ pc' = [pc EXCEPT ![t] = "remove"]
             /\ UNCHANGED <<idx, log, seen>>
        ELSE /\ log' = [log EXCEPT ![t] = Append(@, Entry("in", idx[t], o.msg))]
             /\ seen' = [seen EXCEPT ![t] = Append(@, Did("in", idx[t], "skip"))]
             /\ Goto(t, After(tx, "in", idx[t]))
             /\ UNCHANGED pend
  /\ UNCHANGED <<coins, mutex, cur, loc, ret, calls, nAdd, nRemOk, dscript, dres, db, dbres>>

\* remove: mutex.Lock(); coin := coins[a]
RemoveLock(t) ==
  /\ pc[t] = "remove"
  /\ CanLock(t)
  /\ mutex' = t
  /\ loc' = [loc EXCEPT ![t] = Lookup(Serialize(pend[t].key))]
  /\ pc' = [pc EXCEPT ![t] = "removing"]
  /\ UNCHANGED <<coins, cur, idx, pend, log, ret, calls, nAdd, nRemOk, seen, dscript, dres,
                 db, dbres>>

RemoveBody_NoUnlockOnNotFound(t) ==
  /\ pc[t] = "removing"
  /\ LET tx == Txs[cur[t]]
         in == tx.TxIn[idx[t]]
         a == Serialize(pend[t].key)
         coin == loc[t]
         r == removeFrom(coin, in.Hash, in.Index)
     IN IF r.err = NoErr
        THEN /\ coins' = Store(a, r.coin)
             /\ nRemOk' = nRemOk + 1
             /\ seen' = [seen EXCEPT ![t] = Append(@, Did("in", idx[t], "remove"))]
             /\ mutex' = NoThread
             /\ Goto(t, After(Txs[cur[t]], "in", idx[t]))
             /\ UNCHANGED log
        ELSE /\ pc' = [pc EXCEPT ![t] = "removed"]
             /\ UNCHANGED <<coins, nRemOk, mutex, seen, log, idx>>
  /\ loc' = [loc EXCEPT ![t] = <<>>]
  /\ pend' = [pend EXCEPT ![t] = NoPend]
  /\ UNCHANGED <<cur, ret, calls, nAdd, dscript, dres, db, dbres>>

\* remove: the scan, the deletion when a coin matches, the deferred unlock and the
\* return to Add.  When remove returns nil Add goes on to the next item; when it
\* returns the error Add has still to log it.
RemoveBody(t) ==
  /\ pc[t] = "removing"
  /\ LET tx == Txs[cur[t]]
         in == tx.TxIn[idx[t]]
         a == Serialize(pend[t].key)
         coin == loc[t]
         r == removeFrom(coin, in.Hash, in.Index)
     IN IF r.err = NoErr
        THEN /\ coins' = Store(a, r.coin)
             /\ nRemOk' = nRemOk + 1
             /\ seen' = [seen EXCEPT ![t] = Append(@, Did("in", idx[t], "remove"))]
             /\ Goto(t, After(Txs[cur[t]], "in", idx[t]))
             /\ UNCHANGED log
        ELSE /\ pc' = [pc EXCEPT ![t] = "removed"]
             /\ UNCHANGED <<coins, nRemOk, seen, log, idx>>
  /\ mutex' = NoThread
  /\ loc' = [loc EXCEPT ![t] = <<>>]
  /\ pend' = [pend EXCEPT ![t] = NoPend]
  /\ UNCHANGED <<cur, ret, calls, nAdd, dscript, dres, db, dbres>>

\* Add after remove has returned its error, the lock released: log.Println(err), and
\* on to the next item.
LogRemoveError(t) ==
  /\ pc[t] = "removed"
  /\ log' = [log EXCEPT ![t] = Append(@, Entry("in", idx[t], errNotFound))]
  /\ seen' = [seen EXCEPT ![t] = Append(@, Did("in", idx[t], "notfound"))]
  /\ Goto(t, After(Txs[cur[t]], "in", idx[t]))
  /\ UNCHANGED <<coins, mutex, cur, pend, loc, ret, calls, nAdd, nRemOk, dscript, dres,
                 db, dbres>>

\* One pass of the output loop up to add: skip the output, or go on to add.
Output(t) ==
  /\ pc[t] = "out"
  /\ LET tx == Txs[cur[t]]
         o == OutputOutcomes[cur[t]][idx[t]]
     IN /\ log' = [log EXCEPT ![t] = @ \o Logged("out", idx[t], o.msgs)]
        /\ IF o.add
           THEN /\ pend' = [pend EXCEPT ![t] = [key |-> o.key, ttype |-> o.ttype]]
                /\ pc' = [pc EXCEPT ![t] = "add"]
                /\ UNCHANGED <<idx, seen>>
           ELSE /\ seen' = [seen EXCEPT ![t] = Append(@, Did("out", idx[t], "skip"))]
                /\ Goto(t, After(tx, "out", idx[t]))
                /\ UNCHANGED pend
  /\ UNCHANGED <<coins, mutex, cur, loc, ret, calls, nAdd, nRemOk, dscript, dres, db, dbres>>

\* add: mutex.Lock(); the read of coins[string(a)]
AddLock(t) ==
  /\ pc[t] = "add"
  /\ CanLock(t)
  /\ mutex' = t
  /\ loc' = [loc EXCEPT ![t] = Lookup(Serialize(pend[t].key))]
  /\ pc' = [pc EXCEPT ![t] = "adding"]
  /\ UNCHANGED <<coins, cur, idx, pend, log, ret, calls, nAdd, nRemOk, seen, dscript, dres,
                 db, dbres>>

\* add: coins[string(a)] = append(..., c), the unlock and the return to Add.
AddBody(t) ==
  /\ pc[t] = "adding"
  /\ LET tx == Txs[cur[t]]
         c == NewCoin(pend[t].key, tx, idx[t] - 1, pend[t].ttype)
     IN coins' = Store(c.Addr, addTo(loc[t], c))
  /\ nAdd' = nAdd + 1
  /\ seen' = [seen EXCEPT ![t] = Append(@, Did("out", idx[t], "add"))]
  /\ mutex' = NoThread
  /\ loc' = [loc EXCEPT ![t] = <<>>]
  /\ pend' = [pend EXCEPT ![t] = NoPend]
  /\ Goto(t, After(Txs[cur[t]], "out", idx[t]))
  /\ UNCHANGED <<cur, log, ret, calls, nRemOk, dscript, dres, db, dbres>>

\* return nil
Return(t) ==
  /\ pc[t] = "return"
  /\ pc' = [pc EXCEPT ![t] = "idle"]
  /\ ret' = [ret EXCEPT ![t] = NoErr]
  /\ UNCHANGED <<coins, mutex, cur, idx, pend, loc, log, calls, nAdd, nRemOk, seen,
                 dscript, dres, db, dbres>>

Init ==
  /\ coins = <<>>
  /\ mutex = NoThread
  /\ pc = [t \in Threads |-> "idle"]
  /\ cur = [t \in Threads |-> 0]
  /\ idx = [t \in Threads |-> 0]
  /\ pend = [t \in Threads |-> NoPend]
  /\ loc = [t \in Threads |-> <<>>]
  /\ log = [t \in Threads |-> <<>>]
  /\ ret = [t \in Threads |-> "none"]
  /\ calls = 0
  /\ nAdd = 0
  /\ nRemOk = 0
  /\ seen = [t \in Threads |-> <<>>]
  /\ dscript = <<>>
  /\ dres = <<>>
  /\ db = <<>>
  /\ dbres = <<>>

Next ==
  \/ \E t \in Threads, id \in TxIds : Start(t, id)
  \/ \E t \in Threads : Input(t)
  \/ \E t \in Threads : RemoveLock(t)
  \/ \E t \in Threads : RemoveBody(t)
  \/ \E t \in Threads : LogRemoveError(t)
  \/ \E t \in Threads : Output(t)
  \/ \E t \in Threads : AddLock(t)
  \/ \E t \in Threads : AddBody(t)
  \/ \E t \in Threads : Return(t)

Spec == Init /\ [][Next]_vars

(***************************************************************************)
(* The decoders applied to single scripts: every well-formed encoding of   *)
(* a template, and every script that differs from one in one marker byte.  *)
(***************************************************************************)
\* The R and S components the signature scripts are built from.
SigInts == {<<SigR, SigS>>, <<<<48>>, <<2, 1>>>>}

\* The positions of the fixed markers in the encoding of a template.
ScriptMarkers == {1, 2, 3, PubHashLen + 4, PubHashLen + 5}
Script2Markers(blob) == {Len(blob) + 2}
ScriptSigMarkers(r, s) == {2, 4, 6 + Len(r), 8 + Len(r) + Len(s)}

WellFormed ==
  {[tmpl |-> "Script", key |-> k, r |-> <<>>, s |-> <<>>, pos |-> 0,
    data |-> EncScript(PubHashOf(k))] : k \in Keys}
  \cup {[tmpl |-> "Script2", key |-> k, r |-> <<>>, s |-> <<>>, pos |-> 0,
         data |-> EncScript2(Serialize(k))] : k \in Keys}
  \cup {[tmpl |-> "ScriptSig", key |-> k, r |-> rs[1], s |-> rs[2], pos |-> 0,
         data |-> EncScriptSig(rs[1], rs[2], Serialize(k))] : k \in Keys, rs \in SigInts}

MarkersOf(w) ==
  IF w.tmpl = "Script" THEN ScriptMarkers
  ELSE IF w.tmpl = "Script2" THEN Script2Markers(Serialize(w.key))
  ELSE ScriptSigMarkers(w.r, w.s)

\* The scripts that differ from w in the byte at marker position p.
CorruptedAt(w, p) ==
  {[w EXCEPT !.pos = p, !.data = Patch(w.data, p, v)] : v \in Byte \ {w.data[p]}}

Corrupted == UNION {UNION {CorruptedAt(w, p) : p \in MarkersOf(w)} : w \in WellFormed}

DecodeInputs == WellFormed \cup Corrupted

NoRes == [op |-> "none"]

\* parse(&s, script) and checkTxout(&s) as the output loop of Add calls them.
DecodeTxout ==
  /\ dres = NoRes
  /\ LET r == parse(Script, dscript.data)
         c == IF r.err = NoErr THEN checkTxout(r.s) ELSE [err |-> "-", key |-> NoKey]
     IN dres' = [op |-> "Script", perr |-> r.err, s |-> r.s, cerr |-> c.err, key |-> c.key]
  /\ UNCHANGED <<coins, mutex, pc, cur, idx, pend, loc, log, ret, calls, nAdd, nRemOk, seen,
                 dscript, db, dbres>>

\* parse(&s2, script) and checkTxout2(&s2).
DecodeTxout2 ==
  /\ dres = NoRes
  /\ LET r == parse(Script2, dscript.data)
         c == IF r.err = NoErr THEN checkTxout2(r.s) ELSE [err |-> "-", key |-> NoKey]
     IN dres' = [op |-> "Script2", perr |-> r.err, s |-> r.s, cerr |-> c.err, key |-> c.key]
  /\ UNCHANGED <<coins, mutex, pc, cur, idx, pend, loc, log, ret, calls, nAdd, nRemOk, seen,
                 dscript, db, dbres>>

\* parseScriptsigH, parseScriptsigT and checkTxin as the input loop of Add calls them.
DecodeTxin ==
  /\ dres = NoRes
  /\ LET h == parseScriptsigH(dscript.data)
         t == IF h.err = NoErr THEN parseScriptsigT(h.buf) ELSE [err |-> "-", s |-> <<>>]
         c == IF t.err = NoErr THEN checkTxin(t.s) ELSE [err |-> "-", key |-> NoKey]
     IN dres' = [op |-> "ScriptSig", herr |-> h.err, buf |-> h.buf, perr |-> t.err,
                 s |-> t.s, cerr |-> c.err, key |-> c.key]
  /\ UNCHANGED <<coins, mutex, pc, cur, idx, pend, loc, log, ret, calls, nAdd, nRemOk, seen,
                 dscript, db, dbres>>

\* The output loop and the input loop of Add on the script.
DecodeInAdd ==
  /\ dres = NoRes
  /\ dres' = [op |-> "Add",
              out |-> OutputOutcome([Value |-> 1, Script |-> dscript.data]),
              in |-> InputOutcome([Hash |-> Hash(Tx1), Index |-> U32(0),
                                   Script |-> dscript.data])]
  /\ UNCHANGED <<coins, mutex, pc, cur, idx, pend, loc, log, ret, calls, nAdd, nRemOk, seen,
                 dscript, db, dbres>>

DecodeInit ==
  /\ coins = <<>>
  /\ mutex = NoThread
  /\ pc = [t \in Threads |-> "idle"]
  /\ cur = [t \in Threads |-> 0]
  /\ idx = [t \in Threads |-> 0]
  /\ pend = [t \in Threads |-> NoPend]
  /\ loc = [t \in Threads |-> <<>>]
  /\ log = [t \in Threads |-> <<>>]
  /\ ret = [t \in Threads |-> "none"]
  /\ calls = 0
  /\ nAdd = 0
  /\ nRemOk = 0
  /\ seen = [t \in Threads |-> <<>>]
  /\ dscript \in DecodeInputs
  /\ dres = NoRes
  /\ db = <<>>
  /\ dbres = <<>>

DecodeNext == DecodeTxout \/ DecodeTxout2 \/ DecodeTxin \/ DecodeInAdd

SpecDecode == DecodeInit /\ [][DecodeNext]_vars

(***************************************************************************)
(* Helpers of the properties.                                              *)
(***************************************************************************)
RECURSIVE SumLen(_)
SumLen(as) ==
  IF as = {} THEN 0
  ELSE LET a == CHOOSE x \in as : TRUE IN Len(coins[a]) + SumLen(as \ {a})

\* Coins in the registry, over all addresses.
TotalCoins == SumLen(DOMAIN coins)

\* Whether list l holds a coin with (hash, index).
Holds(l, hash, index) == \E i \in 1..Len(l) : l[i].TxHash = hash /\ l[i].TxIndex = index

\* Thread t takes the step that ends its remove / its add.
RemoveReturns(t) == pc[t] = "removing" /\ pc'[t] # "removing"
\* Add logs the error remove returned to thread t.
RemoveErrorLogged(t) == pc[t] = "removed" /\ pc'[t] # "removed"
AddReturns(t) == pc[t] = "adding" /\ pc'[t] # "adding"

\* The input and the output thread t is at.
InAt(t) == Txs[cur[t]].TxIn[idx[t]]
OutAt(t) == Txs[cur[t]].TxOut[idx[t]]

(***************************************************************************)
(* C1: no two coins in the list of one address share the same              *)
(* (transaction hash, output index) pair, in every reachable state, also   *)
(* when a transaction is processed more than once.                         *)
(***************************************************************************)
C1_NoDuplicateCoins ==
  \A a \in DOMAIN coins : \A i, j \in 1..Len(coins[a]) :
    (coins[a][i].TxHash = coins[a][j].TxHash /\ coins[a][i].TxIndex = coins[a][j].TxIndex)
      => i = j

(***************************************************************************)
(* C2: with threads running Add concurrently, no update is lost: whenever  *)
(* no thread is inside add or remove (so also in the final state), the     *)
(* number of coins in the registry is the number of add calls minus the    *)
(* number of remove calls that succeeded.                                  *)
(***************************************************************************)
C2_NoLostUpdate ==
  (\A t \in Threads : pc[t] \notin {"adding", "removing"})
    => TotalCoins = nAdd - nRemOk

\* Two threads process different transactions; both have appended to the list of
\* key 1, and now one is inside add for key 1 while the other waits for the lock to
\* add for the same key.
C2_Witness ==
  \E t, u \in Threads :
    /\ t # u /\ cur[t] # cur[u]
    /\ pc[t] = "adding" /\ pc[u] = "add"
    /\ pend[t].key = 1 /\ pend[u].key = 1
    /\ \E i, j \in 1..Len(Lookup(Serialize(1))) :
         Lookup(Serialize(1))[i].TxHash # Lookup(Serialize(1))[j].TxHash

(***************************************************************************)
(* C3: a remove(address, hash, index) whose address holds no coin with     *)
(* that (hash, index), also when the address has no entry, fails with the  *)
(* coin-not-found error and leaves the whole registry unchanged (every     *)
(* list and the set of addresses with an entry).                           *)
(***************************************************************************)
C3_RemoveAbsent ==
  [][\A t \in Threads :
       /\ (RemoveReturns(t)
           /\ ~Holds(Lookup(Serialize(pend[t].key)), InAt(t).Hash, InAt(t).Index))
          => /\ coins' = coins
             /\ DOMAIN coins' = DOMAIN coins
             /\ pc'[t] = "removed"
       /\ RemoveErrorLogged(t)
          => /\ coins' = coins
             /\ log'[t] = Append(log[t], Entry("in", idx[t], "coin was not found"))
             /\ seen'[t] = Append(seen[t], Did("in", idx[t], "notfound"))]_vars

\* A remove has just failed on an address that has no entry.
C3_Witness ==
  \E t \in Threads :
    /\ coins = <<>>
    /\ Len(seen[t]) > 0
    /\ seen[t][Len(seen[t])] = Did("in", 2, "notfound")
    /\ cur[t] = 2

(***************************************************************************)
(* What the lifecycle rule expects, stated on the bytes of the scripts.    *)
(***************************************************************************)
\* The owned keys whose pay-to-public-key-hash script is exactly script.
P2PKHOwners(script) ==
  {k \in OwnedKeys :
     script = <<118, 169, 20>> \o PubHashOf(k) \o <<136, 172>>}

\* The owned keys whose pay-to-public-key script is exactly script.
P2PKOwners(script) ==
  {k \in OwnedKeys :
     script = <<Len(Serialize(k))>> \o Serialize(k) \o <<172>>}

\* The script matches a template the wallet recognizes, with an owned key, under the
\* matching priority: a script of the pay-to-public-key-hash length is matched
\* against that template only, any other script against pay-to-public-key only.
Recognized(script) ==
  \/ P2PKHOwners(script) # {}
  \/ Len(script) # PubHashLen + 5 /\ P2PKOwners(script) # {}

\* The coin the rule expects for output i (from 1) of tx.
ExpectedCoin(tx, i) ==
  LET sc == tx.TxOut[i].Script
      k == IF P2PKHOwners(sc) # {} THEN CHOOSE x \in P2PKHOwners(sc) : TRUE
           ELSE CHOOSE x \in P2PKOwners(sc) : TRUE
  IN [Addr |-> Serialize(k), TxHash |-> Hash(tx), TxIndex |-> <<0, i - 1>>,
      Value |-> tx.TxOut[i].Value, Ttype |-> IF P2PKHOwners(sc) # {} THEN 0 ELSE 1]

\* The registry after the step is the registry before it with c appended to the
\* list of c.Addr and nothing else changed.
Appended(c) ==
  /\ DOMAIN coins' = DOMAIN coins \cup {c.Addr}
  /\ coins'[c.Addr] = Lookup(c.Addr) \o <<c>>
  /\ \A b \in DOMAIN coins \ {c.Addr} : coins'[b] = coins[b]

\* Thread t takes the step that handles its current input / output up to the call
\* of remove / add.
InputStep(t) == pc[t] = "in" /\ (pc'[t] # "in" \/ idx'[t] # idx[t])
OutputStep(t) == pc[t] = "out" /\ (pc'[t] # "out" \/ idx'[t] # idx[t])

\* Thread t is, after the step, at the item that follows item i of the loop where.
MovedOn(t, where, i) ==
  LET tx == Txs[cur[t]]
  IN IF where = "in" /\ i < Len(tx.TxIn) THEN pc'[t] = "in" /\ idx'[t] = i + 1
     ELSE IF where = "in" /\ Len(tx.TxOut) > 0 THEN pc'[t] = "out" /\ idx'[t] = 1
     ELSE IF where = "out" /\ i < Len(tx.TxOut) THEN pc'[t] = "out" /\ idx'[t] = i + 1
     ELSE pc'[t] = "return"

\* The outputs of tx for which seen records an add.
AddsSeen(s, i) == {j \in 1..Len(s) : s[j] = Did("out", i, "add")}

ItemsOf(tx) ==
  [j \in 1..(Len(tx.TxIn) + Len(tx.TxOut)) |->
     IF j <= Len(tx.TxIn) THEN <<"in", j>> ELSE <<"out", j - Len(tx.TxIn)>>]

\* Thread t finishes, with the step, an item without changing the registry for it.
Absorbs(t) ==
  /\ Len(seen'[t]) = Len(seen[t]) + 1
  /\ seen'[t][Len(seen'[t])].did \in {"skip", "notfound"}

(***************************************************************************)
(* C5: Add never returns an error and never aborts the pass: whatever      *)
(* decode failure, unsupported format, not-owned key or coin-not-found     *)
(* removal occurs at an item, the step leaves the registry as it is, the   *)
(* call keeps running and moves on to the very next item, and a finished   *)
(* call has returned nil after going through every input and every output  *)
(* once, in order.                                                         *)
(***************************************************************************)
C5_NeverAborts ==
  /\ [][\A t \in Threads :
          Absorbs(t)
          => /\ coins' = coins
             /\ ret'[t] = "running"
             /\ MovedOn(t, seen'[t][Len(seen'[t])].where, seen'[t][Len(seen'[t])].item)]_vars
  /\ [](\A t \in Threads :
          /\ ret[t] \in {"none", "running", NoErr}
          /\ (pc[t] \in {"return", "idle"} /\ cur[t] # 0)
             => [j \in 1..Len(seen[t]) |-> <<seen[t][j].where, seen[t][j].item>>]
                  = ItemsOf(Txs[cur[t]]))

\* A call on transaction 3 has returned nil after a failed removal, three rejected
\* inputs and two rejected outputs, with its last output added.
C5_Witness ==
  \E t \in Threads :
    /\ cur[t] = 3 /\ pc[t] = "idle" /\ ret[t] = NoErr
    /\ [j \in 1..Len(seen[t]) |-> seen[t][j].did]
         = <<"notfound", "skip", "skip", "skip", "skip", "skip", "add">>

\* The script is a complete signature script header and nothing more.
HeaderOnly(script) ==
  \E lr, ls \in 0..Len(script) :
    /\ Len(script) = 7 + lr + ls
    /\ script[5] = lr
    /\ script[7 + lr] = ls

IsCoinbase(in) == in.Hash = [j \in 1..32 |-> 0] /\ in.Index = <<65535, 65535>>

(***************************************************************************)
(* C6: an input whose signature script is a complete header with zero      *)
(* trailing bytes is skipped: the registry and the lock are untouched, the *)
(* call keeps running (the old-type line is logged, no error is returned)  *)
(* and goes on with the next input or the first output.                    *)
(***************************************************************************)
C6_OldTypeSkipped ==
  [][\A t \in Threads :
       (InputStep(t) /\ HeaderOnly(InAt(t).Script) /\ ~IsCoinbase(InAt(t)))
       => /\ coins' = coins
          /\ mutex' = mutex
          /\ ret'[t] = "running"
          /\ seen'[t] = Append(seen[t], Did("in", idx[t], "skip"))
          /\ log'[t] = Append(log[t], Entry("in", idx[t], "old type of scriptsig, ignoring"))
          /\ MovedOn(t, "in", idx[t])]_vars

\* A call on transaction 2 skipped its header-only first input, removed the coin its
\* second input spends, handled both outputs and returned nil.
C6_Witness ==
  \E t \in Threads :
    /\ cur[t] = 2 /\ pc[t] = "idle" /\ ret[t] = NoErr
    /\ HeaderOnly(Tx2.TxIn[1].Script)
    /\ seen[t] = <<Did("in", 1, "skip"), Did("in", 2, "remove"),
                   Did("out", 1, "add"), Did("out", 2, "skip")>>

(***************************************************************************)
(* C7: the coinbase input (previous hash of 32 zero bytes, index *)
(* 0xFFFFFFFF) is skipped without any log entry for it and without any     *)
(* registry change.                                                        *)
(***************************************************************************)
C7_CoinbaseSilent ==
  [][\A t \in Threads :
       (InputStep(t) /\ IsCoinbase(InAt(t)))
       => /\ coins' = coins
          /\ log'[t] = log[t]]_vars

\* The script is a signature script carrying the serialized key k: the header with
\* its markers 0x30, 0x02, 0x02, then the sighash byte 0x01 and the key.
SigShape(script, k) ==
  \E lr, ls \in 0..Len(script) :
    /\ Len(script) = 9 + lr + ls + Len(Serialize(k))
    /\ script[2] = 48 /\ script[4] = 2 /\ script[5] = lr
    /\ script[6 + lr] = 2 /\ script[7 + lr] = ls
    /\ script[8 + lr + ls] = 1
    /\ script[9 + lr + ls] = Len(Serialize(k))
    /\ SubSeq(script, 10 + lr + ls, Len(script)) = Serialize(k)

\* How often coin c occurs in list l.
Occurs(l, c) == Cardinality({i \in 1..Len(l) : l[i] = c})

\* The registry after the step is the registry before it with one coin matching
\* (hash, index) deleted from the list of address a and nothing else changed.
Deleted(a, hash, index) ==
  /\ a \in DOMAIN coins
  /\ DOMAIN coins' = DOMAIN coins
  /\ \A b \in DOMAIN coins \ {a} : coins'[b] = coins[b]
  /\ Len(coins'[a]) = Len(coins[a]) - 1
  /\ \E i \in 1..Len(coins[a]) :
       /\ coins[a][i].TxHash = hash /\ coins[a][i].TxIndex = index
       /\ \A j \in 1..Len(coins[a]) :
            Occurs(coins'[a], coins[a][j])
              = Occurs(coins[a], coins[a][j]) - (IF coins[a][j] = coins[a][i] THEN 1 ELSE 0)

(***************************************************************************)
(* C8: every change of the registry is justified by the lifecycle rule: it *)
(* is either the append of the expected coin for an output that is a       *)
(* recognized template of an owned key, or the deletion of one coin        *)
(* matching (previous hash, index) of a non-coinbase input whose signature *)
(* script has the markers 0x30, 0x02, 0x02 and the sighash byte 0x01 and   *)
(* carries an owned key, from the list of that key.                        *)
(***************************************************************************)
C8_Lifecycle ==
  [][coins' # coins
     => \E t \in Threads :
          \/ /\ pc[t] = "adding" /\ pc'[t] # "adding"
             /\ Recognized(OutAt(t).Script)
             /\ Appended(ExpectedCoin(Txs[cur[t]], idx[t]))
          \/ /\ pc[t] = "removing" /\ pc'[t] # "removing"
             /\ ~IsCoinbase(InAt(t))
             /\ \E k \in OwnedKeys :
                  /\ SigShape(InAt(t).Script, k)
                  /\ Deleted(Serialize(k), InAt(t).Hash, InAt(t).Index)]_vars

\* Coins were created and one was destroyed, and a call on transaction 3, whose
\* inputs fail the rule one check each, has finished.
C8_Witness ==
  /\ nRemOk = 1 /\ nAdd >= 3
  /\ \E t \in Threads : cur[t] = 3 /\ pc[t] = "idle" /\ ret[t] = NoErr

\* The coins add can be called for: any owned key and any output of a transaction.
CoinsToAdd ==
  {NewCoin(k, Txs[ii[1]], ii[2] - 1, 0) :
     k \in OwnedKeys,
     ii \in UNION {{<<id, i>> : i \in 1..Len(Txs[id].TxOut)} : id \in TxIds}}

(***************************************************************************)
(* C9: from any registry state, adding a coin for (address, hash, index,   *)
(* value) and then removing the same (address, hash, index) succeeds and   *)
(* gives the address the coin count it had before the add.                 *)
(***************************************************************************)
C9_AddThenRemove ==
  \A c \in CoinsToAdd :
    LET before == Lookup(c.Addr)
        r == removeFrom(addTo(before, c), c.TxHash, c.TxIndex)
    IN r.err = NoErr /\ Len(r.coin) = Len(before)

\* Output 0 of transaction 1 was added for key 1 and then removed: the list of key 1
\* is back to the one other coin of transaction 1.
C9_Witness ==
  /\ nRemOk = 1 /\ nAdd = 3
  /\ Len(Lookup(Serialize(1))) = 1
  /\ ~Holds(Lookup(Serialize(1)), Hash(Tx1), <<0, 0>>)

\* The fields a well-formed encoding w of a template encodes.
FieldsOf(w) ==
  IF w.tmpl = "Script"
  THEN <<118, 169, 20, PubHashOf(w.key), 136, 172>>
  ELSE IF w.tmpl = "Script2"
  THEN <<Len(Serialize(w.key)), Serialize(w.key), 172>>
  ELSE <<1, Len(Serialize(w.key)), Serialize(w.key)>>

\* The result of the template's own decoder on the script under decode.
OwnResult == dres.op = dscript.tmpl

\* The decode ended without a structural error: the script was accepted, or rejected
\* only because its key is not owned.
Decoded ==
  /\ dres.perr = NoErr
  /\ dres.cerr \in {NoErr, "not concerened address"}
  /\ dres.op = "ScriptSig" => dres.herr = NoErr

(***************************************************************************)
(* C10: for each template, decoding a well-formed encoding succeeds and    *)
(* yields the encoded field values (for a signature script: the header     *)
(* leaves exactly the tail, and the tail yields the sighash byte, the key  *)
(* length and the key), with the key accepted exactly when it is owned;    *)
(* and a script that differs from a well-formed one in one byte at a fixed *)
(* marker position (DUP, HASH160, 0x14, EQUALVERIFY, CHECKSIG; 0x30, the   *)
(* 0x02 of R, the 0x02 of S; the sighash 0x01) fails its decode and is     *)
(* neither added for as an output nor removed for as an input.             *)
(***************************************************************************)
C10_RoundTrip ==
  /\ (OwnResult /\ dscript.pos = 0)
     => /\ Decoded
        /\ dres.s = FieldsOf(dscript)
        /\ dres.op = "ScriptSig"
           => dres.buf = <<1, Len(Serialize(dscript.key))>> \o Serialize(dscript.key)
        /\ dres.cerr = NoErr <=> dscript.key \in OwnedKeys
        /\ dres.cerr = NoErr => dres.key = dscript.key
  /\ (OwnResult /\ dscript.pos # 0) => ~Decoded
  /\ (dres.op = "Add" /\ dscript.pos # 0) => (~dres.out.add /\ ~dres.in.remove)
  /\ (dres.op = "Add" /\ dscript.pos = 0 /\ dscript.key \in OwnedKeys)
     => /\ dres.out.add <=> \/ dscript.tmpl = "Script"
                             \/ /\ dscript.tmpl = "Script2"
                                /\ Len(dscript.data) # PubHashLen + 5
        /\ dres.in.remove <=> dscript.tmpl = "ScriptSig"

\* The decoders of the signature script were applied to a well-formed script with its
\* sighash byte changed: header and tail parse, and checkTxin rejects the script.
C10_Witness ==
  /\ OwnResult
  /\ dscript.tmpl = "ScriptSig"
  /\ dscript.pos = 8 + Len(dscript.r) + Len(dscript.s)
  /\ dres.herr = NoErr /\ dres.perr = NoErr /\ dres.cerr = "unsuported scriptsig"

\* The script has the layout of the pay-to-public-key-hash template: its length, and
\* every fixed opcode byte.
FitsP2PKH(script) ==
  /\ Len(script) = PubHashLen + 5
  /\ script[1] = opDUP /\ script[2] = opHASH160 /\ script[3] = HashLength14
  /\ script[PubHashLen + 4] = opEQUALVERIFY /\ script[PubHashLen + 5] = opCHECKSIG

(***************************************************************************)
(* C14 as stated: for each output the pay-to-public-key-hash template has  *)
(* priority and pay-to-public-key is the fallback: a script that fails the *)
(* pay-to-public-key-hash template (wrong length or any wrong fixed opcode *)
(* byte) but is the well-formed pay-to-public-key script of an owned key   *)
(* yields a coin of type 1 for that key; a script matching both never      *)
(* yields type 1; a script matching neither yields no coin.                *)
(***************************************************************************)
C14_FallbackOnAnyFailure ==
  dres.op = "Add"
  => /\ (~FitsP2PKH(dscript.data) /\ P2PKOwners(dscript.data) # {})
        => /\ dres.out.add /\ dres.out.ttype = 1
           /\ dres.out.key \in P2PKOwners(dscript.data)
     /\ (FitsP2PKH(dscript.data) /\ P2PKOwners(dscript.data) # {})
        => ~(dres.out.add /\ dres.out.ttype = 1)
     /\ (P2PKHOwners(dscript.data) = {} /\ P2PKOwners(dscript.data) = {})
        => ~dres.out.add

(***************************************************************************)
(* C14 as amended: pay-to-public-key is the fallback only for a script     *)
(* that fails the pay-to-public-key-hash template by its length.  A script *)
(* of another length than that template's which is the well-formed         *)
(* pay-to-public-key script of an owned key yields a coin of type 1 for    *)
(* that key.  A script of that template's length is decided by that        *)
(* template alone: it yields a coin, of type 0, exactly when it is the     *)
(* pay-to-public-key-hash script of an owned key, and with a wrong fixed   *)
(* opcode byte it yields no coin even when it is the well-formed           *)
(* pay-to-public-key script of an owned key.  A script that is neither     *)
(* yields no coin.                                                         *)
(***************************************************************************)
C14_Priority ==
  dres.op = "Add"
  => /\ (Len(dscript.data) # PubHashLen + 5 /\ P2PKOwners(dscript.data) # {})
        => /\ dres.out.add /\ dres.out.ttype = 1
           /\ dres.out.key \in P2PKOwners(dscript.data)
     /\ Len(dscript.data) = PubHashLen + 5
        => /\ dres.out.add <=> P2PKHOwners(dscript.data) # {}
           /\ dres.out.add => /\ dres.out.ttype = 0
                              /\ dres.out.key \in P2PKHOwners(dscript.data)
           /\ ~FitsP2PKH(dscript.data) => ~dres.out.add
     /\ ~Recognized(dscript.data) => ~dres.out.add

\* The output loop was applied to the pay-to-public-key script of the owned key
\* whose script has the pay-to-public-key-hash length: the pay-to-public-key-hash
\* parse succeeded, checkTxout rejected the opcodes, and no coin was added.
C14_Witness ==
  /\ dres.op = "Add"
  /\ dscript.tmpl = "Script2" /\ dscript.pos = 0 /\ dscript.key = LongKey
  /\ Len(dscript.data) = PubHashLen + 5
  /\ ~FitsP2PKH(dscript.data)
  /\ P2PKOwners(dscript.data) = {LongKey}
  /\ ~dres.out.add
  /\ dres.out.msgs = <<"pubkeyhash scriptsig", "unsuported scriptsig">>

\* Input in spends output i (from 1) of transaction id with a well-formed signature
\* script carrying key k.
Spends(in, id, i, k) ==
  /\ in.Hash = Hash(Txs[id]) /\ in.Index = <<0, i - 1>>
  /\ ~IsCoinbase(in)
  /\ SigShape(in.Script, k)

\* The registry holds, under key k, exactly one coin for output i of transaction id,
\* and it is the coin Add records for that output.
RecordedOnce(id, i, k) ==
  /\ Recognized(Txs[id].TxOut[i].Script)
  /\ ExpectedCoin(Txs[id], i).Addr = Serialize(k)
  /\ Occurs(Lookup(Serialize(k)), ExpectedCoin(Txs[id], i)) = 1
  /\ Cardinality(Matches(Lookup(Serialize(k)), Hash(Txs[id]), <<0, i - 1>>)) = 1

(***************************************************************************)
(* C15: create-then-spend.  When the registry holds the one coin Add       *)
(* recorded for owned key K from output i of T1, an input of a later       *)
(* transaction with previous hash Hash(T1), index i and a well-formed      *)
(* signature script carrying K goes on to remove for K, and that remove    *)
(* deletes exactly that coin: afterwards the list of K holds no coin       *)
(* (Hash(T1), i), and nothing else has changed.                            *)
(***************************************************************************)
C15_CreateThenSpend ==
  [][\A t \in Threads, id \in TxIds, k \in OwnedKeys :
       \A i \in 1..Len(Txs[id].TxOut) :
         /\ (InputStep(t) /\ Spends(InAt(t), id, i, k))
            => pc'[t] = "remove" /\ pend'[t].key = k
         /\ (RemoveReturns(t) /\ Spends(InAt(t), id, i, k) /\ RecordedOnce(id, i, k))
            => /\ ~Holds(coins'[Serialize(k)], Hash(Txs[id]), <<0, i - 1>>)
               /\ Occurs(coins'[Serialize(k)], ExpectedCoin(Txs[id], i)) = 0
               /\ Deleted(Serialize(k), Hash(Txs[id]), <<0, i - 1>>)
               /\ seen'[t] = Append(seen[t], Did("in", idx[t], "remove"))
               /\ log'[t] = log[t]]_vars

\* Transaction 1 was processed once and is finished; the call on transaction 2 has
\* just removed the coin of output 0 of transaction 1, and the list of key 1 keeps
\* the coin of output 2.
C15_Witness ==
  \E t, u \in Threads :
    /\ calls = 2
    /\ cur[u] = 1 /\ pc[u] = "idle" /\ ret[u] = NoErr
    /\ cur[t] = 2 /\ Len(seen[t]) = 2 /\ seen[t][2] = Did("in", 2, "remove")
    /\ Spends(Tx2.TxIn[2], 1, 1, 1)
    /\ ~Holds(Lookup(Serialize(1)), Hash(Tx1), <<0, 0>>)
    /\ Holds(Lookup(Serialize(1)), Hash(Tx1), <<0, 2>>)

(***************************************************************************)
(* C16: a successful remove(address, hash, index) deletes exactly one      *)
(* coin, one whose (hash, index) matches, from the list of that address:   *)
(* the list is one shorter, every other coin of the address is kept as     *)
(* often as it occurred (the order may change), and the set of addresses   *)
(* and the lists of all other addresses are unchanged.                     *)
(***************************************************************************)
C16_RemoveFrame ==
  [][\A t \in Threads :
       (RemoveReturns(t) /\ nRemOk' = nRemOk + 1)
       => Deleted(Serialize(pend[t].key), InAt(t).Hash, InAt(t).Index)]_vars

\* Transaction 1 was processed twice, so key 1 held output 0, output 2, output 0,
\* output 2; the remove of output 0 put the last coin in the place of the first, and
\* the list of key 2 still holds its two coins.
C16_Witness ==
  /\ nRemOk = 1
  /\ Serialize(1) \in DOMAIN coins /\ Serialize(2) \in DOMAIN coins
  /\ Len(coins[Serialize(1)]) = 3
  /\ coins[Serialize(1)][1].TxIndex = <<0, 2>>
  /\ coins[Serialize(1)][2].TxIndex = <<0, 2>>
  /\ coins[Serialize(1)][3].TxIndex = <<0, 0>>
  /\ Len(coins[Serialize(2)]) = 2

(***************************************************************************)
(* C18: an address gets a registry entry only by the add of its first      *)
(* coin (a remove, also a failing one on an address without entry, creates *)
(* none); entries are never deleted: the remove of the last coin of an     *)
(* address leaves its entry in the map with the empty list; and an add for *)
(* an address whose entry holds the empty list makes it the list of that   *)
(* one coin.                                                               *)
(***************************************************************************)
C18_LazyEntries ==
  [][/\ DOMAIN coins \subseteq DOMAIN coins'
     /\ \A a \in DOMAIN coins' \ DOMAIN coins :
          \E t \in Threads :
            /\ AddReturns(t) /\ a = Serialize(pend[t].key)
            /\ Len(coins'[a]) = 1
     /\ \A t \in Threads :
          /\ (RemoveReturns(t) /\ nRemOk' = nRemOk + 1
              /\ Len(Lookup(Serialize(pend[t].key))) = 1)
             => /\ Serialize(pend[t].key) \in DOMAIN coins'
                /\ coins'[Serialize(pend[t].key)] = <<>>
          /\ (RemoveReturns(t) /\ Serialize(pend[t].key) \notin DOMAIN coins)
             => Serialize(pend[t].key) \notin DOMAIN coins'
          /\ (AddReturns(t) /\ Serialize(pend[t].key) \in DOMAIN coins
              /\ coins[Serialize(pend[t].key)] = <<>>)
             => coins'[Serialize(pend[t].key)]
                  = <<ExpectedCoin(Txs[cur[t]], idx[t])>>]_vars

\* Key 1 got its entry by the add of output 0 of transaction 1, the concurrent call
\* on transaction 2 removed that coin, and the first call is now inside add for
\* output 2: it holds the lock and has read the empty list of the entry.
C18_Witness ==
  \E t \in Threads :
    /\ Serialize(1) \in DOMAIN coins /\ coins[Serialize(1)] = <<>>
    /\ nRemOk = 1
    /\ cur[t] = 1 /\ pc[t] = "adding" /\ idx[t] = 3 /\ pend[t].key = 1
    /\ loc[t] = <<>> /\ mutex = t

\* How many coins of list l match (hash, index).
CountOf(l, hash, index) == Cardinality(Matches(l, hash, index))

(***************************************************************************)
(* C19: the outcome depends on the processing order, and spends are not    *)
(* remembered.  An input spending output i of transaction A for key K that *)
(* is processed while the list of K holds no coin (Hash(A), i) fails in    *)
(* remove with coin-not-found and is absorbed: the registry is unchanged   *)
(* and the call goes on.  The add for output i of A puts the coin          *)
(* (Hash(A), i) in the list whatever was processed before, and the number  *)
(* of coins (hash, index) of an address goes down only by the remove of an *)
(* input with that previous hash and index.  So when B was processed       *)
(* before A and not again, the coin of A is in the registry.               *)
(***************************************************************************)
C19_OrderDependence ==
  /\ [][/\ \A t \in Threads, id \in TxIds, k \in OwnedKeys :
             \A i \in 1..Len(Txs[id].TxOut) :
               /\ (RemoveReturns(t) /\ Spends(InAt(t), id, i, k)
                   /\ ~Holds(Lookup(Serialize(k)), Hash(Txs[id]), <<0, i - 1>>))
                  => /\ coins' = coins
                     /\ ret'[t] = "running"
                     /\ pc'[t] = "removed"
               /\ RemoveErrorLogged(t)
                  => /\ coins' = coins
                     /\ ret'[t] = "running"
                     /\ seen'[t] = Append(seen[t], Did("in", idx[t], "notfound"))
                     /\ MovedOn(t, "in", idx[t])
        /\ \A t \in Threads :
             AddReturns(t)
             => Holds(coins'[Serialize(pend[t].key)], Hash(Txs[cur[t]]), <<0, idx[t] - 1>>)
        /\ \A a \in DOMAIN coins : \A j \in 1..Len(coins[a]) :
             CountOf(coins'[a], coins[a][j].TxHash, coins[a][j].TxIndex)
               < CountOf(coins[a], coins[a][j].TxHash, coins[a][j].TxIndex)
             => \E t \in Threads :
                  /\ RemoveReturns(t)
                  /\ Serialize(pend[t].key) = a
                  /\ InAt(t).Hash = coins[a][j].TxHash
                  /\ InAt(t).Index = coins[a][j].TxIndex]_vars
  /\ [](\A t, u \in Threads, k \in OwnedKeys :
          (/\ calls = 2 /\ t # u
           /\ pc[t] = "idle" /\ ret[t] = NoErr
           /\ pc[u] = "idle" /\ ret[u] = NoErr)
          => \A i \in 1..Len(Txs[cur[t]].TxOut), j \in 1..Len(Txs[cur[u]].TxIn) :
               (/\ Spends(Txs[cur[u]].TxIn[j], cur[t], i, k)
                /\ \E n \in 1..Len(seen[u]) : seen[u][n] = Did("in", j, "notfound")
                /\ \E n \in 1..Len(seen[t]) : seen[t][n] = Did("out", i, "add"))
               => Holds(Lookup(Serialize(k)), Hash(Txs[cur[t]]), <<0, i - 1>>))

\* Transaction 2, which spends output 0 of transaction 1, was processed by one
\* thread and failed to remove the coin; transaction 1 was processed by the other;
\* both calls have returned and the coin of output 0 is in the list of key 1.
C19_Witness ==
  \E t, u \in Threads :
    /\ calls = 2 /\ nRemOk = 0
    /\ cur[u] = 2 /\ pc[u] = "idle" /\ ret[u] = NoErr
    /\ seen[u][2] = Did("in", 2, "notfound")
    /\ Spends(Tx2.TxIn[2], 1, 1, 1)
    /\ cur[t] = 1 /\ pc[t] = "idle" /\ ret[t] = NoErr
    /\ Holds(Lookup(Serialize(1)), Hash(Tx1), <<0, 0>>)

(***************************************************************************)
(* Add under fair scheduling.  A thread that can take a step of its call   *)
(* eventually takes it, and a thread waiting in mutex.Lock() gets the lock *)
(* if it is free again and again (the runtime schedules every goroutine,   *)
(* and sync.Mutex hands the lock to a starving waiter).  Calls of Add come *)
(* from outside and are under no fairness.                                 *)
(***************************************************************************)
Running(t) ==
  Input(t) \/ RemoveBody(t) \/ LogRemoveError(t) \/ Output(t) \/ AddBody(t) \/ Return(t)

Locking(t) == RemoveLock(t) \/ AddLock(t)

SpecFair ==
  /\ Init /\ [][Next]_vars
  /\ \A t \in Threads : WF_vars(Running(t)) /\ SF_vars(Locking(t))

(***************************************************************************)
(* C17: every Add call runs to completion.  Under fair scheduling each     *)
(* started call eventually returns nil; the lock is free after the step    *)
(* that ends an add or a remove (on success and on the not-found path);    *)
(* the lock is held exactly by the thread that is inside add or remove, so *)
(* no thread holds it outside of them; and while a call is running some    *)
(* thread can take a step of its call (no deadlock).                       *)
(***************************************************************************)
C17_RunsToCompletion ==
  /\ \A t \in Threads : (ret[t] = "running") ~> (ret[t] = NoErr /\ pc[t] = "idle")
  /\ [][\A t \in Threads : (RemoveReturns(t) \/ AddReturns(t)) => mutex' = NoThread]_vars
  /\ [](\A t \in Threads : mutex = t <=> pc[t] \in {"adding", "removing"})
  /\ []((\E t \in Threads : pc[t] # "idle")
        => \E t \in Threads : ENABLED (Running(t) \/ Locking(t)))

\* One thread is inside remove on the not-found path (the list it read holds no coin
\* for the input) and holds the lock, while the other waits in mutex.Lock() of add.
C17_Witness ==
  \E t, u \in Threads :
    /\ pc[t] = "removing" /\ mutex = t
    /\ ~Holds(loc[t], InAt(t).Hash, InAt(t).Index)
    /\ pc[u] = "add"

(***************************************************************************)
(* Package db (src/db/db.go, lines 29-317): the typed encoding of values   *)
(* and keys, and the operations on the buckets of the bolt database.       *)
(* A byte slice and a Go string are sequences of bytes.                    *)
(***************************************************************************)
\* The variables of package tx and of the decoders, which package db leaves alone.
txvars == <<coins, mutex, pc, cur, idx, pend, loc, log, ret, calls, nAdd, nRemOk, seen,
            dscript, dres>>

\* bytes.Compare(a, b) < 0: the order in which bolt keeps and iterates keys.
RECURSIVE BytesLess(_, _)
BytesLess(a, b) ==
  IF b = <<>> THEN FALSE
  ELSE IF a = <<>> THEN TRUE
  ELSE IF a[1] # b[1] THEN a[1] < b[1]
  ELSE BytesLess(Tail(a), Tail(b))

\* bytes.HasPrefix(k, prefix)
HasPrefix(k, prefix) ==
  Len(k) >= Len(prefix) /\ SubSeq(k, 1, Len(prefix)) = prefix

\* The byte strings of set S in ascending order.
RECURSIVE Ascending(_)
Ascending(S) ==
  IF S = {} THEN <<>>
  ELSE LET m == CHOOSE x \in S : \A y \in S \ {x} : BytesLess(x, y)
       IN <<m>> \o Ascending(S \ {m})

(***************************************************************************)
(* 64-bit integers.  The bit pattern of a uint64 is four 16-bit limbs,     *)
(* most significant first; a signed value is a sign (1 for negative) in     *)
(* front of the limbs of its magnitude.                                    *)
(***************************************************************************)
Limb == 65536

Signed(neg, mag) == <<IF neg THEN 1 ELSE 0>> \o mag

\* 2^64 - u for a pattern u # 0, and 0 for 0: the pattern of the negated value.
Negate(u) ==
  LET c0 == (Limb - 1 - u[4]) + 1
      c1 == (Limb - 1 - u[3]) + c0 \div Limb
      c2 == (Limb - 1 - u[2]) + c1 \div Limb
      c3 == (Limb - 1 - u[1]) + c2 \div Limb
  IN <<c3 % Limb, c2 % Limb, c1 % Limb, c0 % Limb>>

\* uint64(t) for a signed t: the two's-complement pattern.
ToUint64(t) == IF t[1] = 1 THEN Negate(Tail(t)) ELSE Tail(t)

\* int64(u): the signed value of a pattern.
ToInt64(u) ==
  IF u[1] >= Limb \div 2 THEN Signed(TRUE, Negate(u))
  ELSE Signed(FALSE, u)

PutUint64_BigEndian(u) ==
  <<u[1] \div 256, u[1] % 256, u[2] \div 256, u[2] % 256,
    u[3] \div 256, u[3] % 256, u[4] \div 256, u[4] % 256>>

\* binary.LittleEndian.PutUint64(b, u)
PutUint64(u) ==
  <<u[4] % 256, u[4] \div 256, u[3] % 256, u[3] \div 256,
    u[2] % 256, u[2] \div 256, u[1] % 256, u[1] \div 256>>

\* binary.LittleEndian.Uint64(b), for len(b) >= 8
Uint64(b) ==
  <<b[7] + 256 * b[8], b[5] + 256 * b[6], b[3] + 256 * b[4], b[1] + 256 * b[2]>>

(***************************************************************************)
(* encoding/json for the one value type the package stores through it, a   *)
(* map[string]struct{}, which is a set of strings.  Marshal writes the     *)
(* keys in ascending order as {"k1":{},"k2":{}}; in a key it escapes the   *)
(* quote, the backslash, the control characters and <, >, &, and writes    *)
(* \ufffd for a byte that is not part of a UTF-8 encoding.  The strings of *)
(* the model are made of ASCII bytes, of the encoding EF BF BD of U+FFFD,  *)
(* and of the bytes FE and FF, which occur in no UTF-8 encoding.           *)
(***************************************************************************)
\* b[i], or -1 past the end of b.
At(b, i) == IF i \in 1..Len(b) THEN b[i] ELSE -1

HexDigit(n) == IF n < 10 THEN 48 + n ELSE 87 + n

HexVal(c) ==
  IF c \in 48..57 THEN c - 48
  ELSE IF c \in 97..102 THEN c - 87
  ELSE IF c \in 65..70 THEN c - 55
  ELSE -1

\* The UTF-8 encoding of U+FFFD, and the escape Marshal writes for an invalid byte.
RuneError == <<239, 191, 189>>
EscRuneError == <<92, 117, 102, 102, 102, 100>>

\* The UTF-8 encoding of code point cp < 65536; a surrogate half decodes to U+FFFD.
Utf8(cp) ==
  IF cp < 128 THEN <<cp>>
  ELSE IF cp < 2048 THEN <<192 + (cp \div 64), 128 + (cp % 64)>>
  ELSE IF cp \in 55296..57343 THEN RuneError
  ELSE <<224 + (cp \div 4096), 128 + ((cp \div 64) % 64), 128 + (cp % 64)>>

\* The body of the JSON string Marshal writes for s, from position i on.
RECURSIVE EscapeFrom(_, _)
EscapeFrom(s, i) ==
  IF i > Len(s) THEN <<>>
  ELSE IF s[i] = 34 \/ s[i] = 92 THEN <<92, s[i]>> \o EscapeFrom(s, i + 1)
  ELSE IF s[i] = 10 THEN <<92, 110>> \o EscapeFrom(s, i + 1)
  ELSE IF s[i] = 13 THEN <<92, 114>> \o EscapeFrom(s, i + 1)
  ELSE IF s[i] = 9 THEN <<92, 116>> \o EscapeFrom(s, i + 1)
  ELSE IF s[i] < 32 \/ s[i] \in {60, 62, 38}
       THEN <<92, 117, 48, 48, HexDigit(s[i] \div 16), HexDigit(s[i] % 16)>>
            \o EscapeFrom(s, i + 1)
  ELSE IF s[i] < 128 THEN <<s[i]>> \o EscapeFrom(s, i + 1)
  ELSE IF i + 2 <= Len(s) /\ SubSeq(s, i, i + 2) = RuneError
       THEN RuneError \o EscapeFrom(s, i + 3)
  ELSE EscRuneError \o EscapeFrom(s, i + 1)

RECURSIVE MarshalEntries(_, _)
MarshalEntries(ks, i) ==
  IF i > Len(ks) THEN <<>>
  ELSE (IF i > 1 THEN <<44>> ELSE <<>>)
       \o <<34>> \o EscapeFrom(ks[i], 1) \o <<34, 58, 123, 125>>
       \o MarshalEntries(ks, i + 1)

\* json.Marshal(m) for m a map[string]struct{}
MarshalMap(m) == <<123>> \o MarshalEntries(Ascending(m), 1) \o <<125>>

\* The JSON string whose body starts at b[i]: the string it denotes and the position
\* after its closing quote.
\* The syntax error of the scanner at position i of b, where no byte that may follow
\* is: the end of the input, or a character that is not valid there.
SyntaxError(b, i) ==
  IF i > Len(b) THEN "unexpected end of JSON input" ELSE "invalid character"

RECURSIVE StringFrom(_, _, _)
StringFrom(b, i, acc) ==
  IF At(b, i) = -1 \/ At(b, i) < 32
  THEN [ok |-> FALSE, s |-> <<>>, next |-> 0, err |-> SyntaxError(b, i)]
  ELSE IF b[i] = 34 THEN [ok |-> TRUE, s |-> acc, next |-> i + 1, err |-> NoErr]
  ELSE IF b[i] = 92
       THEN IF At(b, i + 1) \in {34, 92, 47} THEN StringFrom(b, i + 2, Append(acc, b[i + 1]))
            ELSE IF At(b, i + 1) = 110 THEN StringFrom(b, i + 2, Append(acc, 10))
            ELSE IF At(b, i + 1) = 114 THEN StringFrom(b, i + 2, Append(acc, 13))
            ELSE IF At(b, i + 1) = 116 THEN StringFrom(b, i + 2, Append(acc, 9))
            ELSE IF At(b, i + 1) = 98 THEN StringFrom(b, i + 2, Append(acc, 8))
            ELSE IF At(b, i + 1) = 102 THEN StringFrom(b, i + 2, Append(acc, 12))
            ELSE IF /\ At(b, i + 1) = 117
                    /\ \A j \in 2..5 : HexVal(At(b, i + j)) >= 0
                 THEN StringFrom(b, i + 6,
                        acc \o Utf8(4096 * HexVal(b[i + 2]) + 256 * HexVal(b[i + 3])
                                    + 16 * HexVal(b[i + 4]) + HexVal(b[i + 5])))
            ELSE IF At(b, i + 1) = 117
                 THEN [ok |-> FALSE, s |-> <<>>, next |-> 0,
                       err |-> SyntaxError(b, CHOOSE j \in (i + 2)..(i + 5) :
                                                /\ HexVal(At(b, j)) < 0
                                                /\ \A n \in (i + 2)..(j - 1) :
                                                     HexVal(At(b, n)) >= 0)]
            ELSE [ok |-> FALSE, s |-> <<>>, next |-> 0, err |-> SyntaxError(b, i + 1)]
  ELSE IF b[i] < 128 THEN StringFrom(b, i + 1, Append(acc, b[i]))
  ELSE IF i + 2 <= Len(b) /\ SubSeq(b, i, i + 2) = RuneError
       THEN StringFrom(b, i + 3, acc \o RuneError)
  ELSE StringFrom(b, i + 1, acc \o RuneError)

\* The members "k":{} of a JSON object from b[i] on, up to its closing brace, which
\* must end b.
RECURSIVE EntriesFrom(_, _, _)
EntriesFrom(b, i, acc) ==
  IF At(b, i) # 34 THEN [err |-> SyntaxError(b, i), m |-> {}]
  ELSE LET s == StringFrom(b, i + 1, <<>>)
       IN IF ~s.ok THEN [err |-> s.err, m |-> {}]
          ELSE IF At(b, s.next) # 58 THEN [err |-> SyntaxError(b, s.next), m |-> {}]
          ELSE IF At(b, s.next + 1) # 123
               THEN [err |-> SyntaxError(b, s.next + 1), m |-> {}]
          ELSE IF At(b, s.next + 2) # 125
               THEN [err |-> SyntaxError(b, s.next + 2), m |-> {}]
          ELSE IF At(b, s.next + 3) = 44
               THEN EntriesFrom(b, s.next + 4, acc \cup {s.s})
          ELSE IF At(b, s.next + 3) = 125 /\ s.next + 3 = Len(b)
               THEN [err |-> NoErr, m |-> acc \cup {s.s}]
          ELSE IF At(b, s.next + 3) = 125 THEN [err |-> "invalid character", m |-> {}]
          ELSE [err |-> SyntaxError(b, s.next + 3), m |-> {}]

\* json.Unmarshal(b, &m) for m a map[string]struct{}, on the values Marshal writes.
UnmarshalMap(b) ==
  IF b = <<123, 125>> THEN [err |-> NoErr, m |-> {}]
  ELSE IF At(b, 1) # 123 THEN [err |-> SyntaxError(b, 1), m |-> {}]
  ELSE EntriesFrom(b, 2, {})

(***************************************************************************)
(* json.Unmarshal(b, &x) for x a []byte: null leaves x as it is, a JSON     *)
(* string is taken as standard base64 text; b is not one of the other JSON *)
(* values here.                                                            *)
(***************************************************************************)
B64Val(c) ==
  IF c \in 65..90 THEN c - 65
  ELSE IF c \in 97..122 THEN c - 71
  ELSE IF c \in 48..57 THEN c + 4
  ELSE IF c = 43 THEN 62
  ELSE IF c = 47 THEN 63
  ELSE -1

RECURSIVE B64From(_, _, _)
B64From(s, i, acc) ==
  IF i > Len(s) THEN [ok |-> TRUE, b |-> acc]
  ELSE IF i + 3 > Len(s) \/ B64Val(s[i]) < 0 \/ B64Val(s[i + 1]) < 0
       THEN [ok |-> FALSE, b |-> <<>>]
  ELSE LET a == B64Val(s[i])
           b == B64Val(s[i + 1])
           c == B64Val(s[i + 2])
           d == B64Val(s[i + 3])
           b1 == 4 * a + (b \div 16)
           b2 == 16 * (b % 16) + (c \div 4)
           b3 == 64 * (c % 4) + d
       IN IF s[i + 2] = 61 /\ s[i + 3] = 61 /\ i + 3 = Len(s)
          THEN [ok |-> TRUE, b |-> Append(acc, b1)]
          ELSE IF c >= 0 /\ s[i + 3] = 61 /\ i + 3 = Len(s)
          THEN [ok |-> TRUE, b |-> acc \o <<b1, b2>>]
          ELSE IF c >= 0 /\ d >= 0 THEN B64From(s, i + 4, acc \o <<b1, b2, b3>>)
          ELSE [ok |-> FALSE, b |-> <<>>]

UnmarshalBytes(b) ==
  IF b = <<110, 117, 108, 108>> THEN [err |-> NoErr, v |-> <<>>]
  ELSE IF At(b, 1) # 34 THEN [err |-> SyntaxError(b, 1), v |-> <<>>]
  ELSE LET s == StringFrom(b, 2, <<>>)
       IN IF ~s.ok THEN [err |-> s.err, v |-> <<>>]
          ELSE IF s.next # Len(b) + 1 THEN [err |-> "invalid character", v |-> <<>>]
          ELSE LET r == B64From(s.s, 1, <<>>)
               IN IF r.ok THEN [err |-> NoErr, v |-> r.b]
                  ELSE [err |-> "illegal base64 data", v |-> <<>>]

(***************************************************************************)
(* Tob, ToKey, B2v.  A value passed as interface{} is its Go type and its  *)
(* content: [t |-> "int64", v |-> ...]; a target is the type pointed to.   *)
(***************************************************************************)
Val(t, v) == [t |-> t, v |-> v]

Tob(v) ==
  IF v.t = "bytes" THEN [err |-> NoErr, b |-> v.v]
  ELSE IF v.t = "string" THEN [err |-> NoErr, b |-> v.v]
  ELSE IF v.t = "int" THEN [err |-> NoErr, b |-> PutUint64(ToUint64(v.v))]
  ELSE IF v.t = "int64" THEN [err |-> NoErr, b |-> PutUint64(ToUint64(v.v))]
  ELSE IF v.t = "uint64" THEN [err |-> NoErr, b |-> PutUint64(v.v)]
  ELSE [err |-> NoErr, b |-> MarshalMap(v.v)]

\* Tob, for the values on which it cannot fail.
MustTob(v) == Tob(v).b

RECURSIVE ToKey_NoTerminator(_)
ToKey_NoTerminator(vs) ==
  IF vs = <<>> THEN <<>>
  ELSE MustTob(vs[1]) \o ToKey_NoTerminator(Tail(vs))

\* ToKey(v...): the encodings of the components, a NUL after each string.
RECURSIVE ToKey(_)
ToKey(vs) ==
  IF vs = <<>> THEN <<>>
  ELSE MustTob(vs[1]) \o (IF vs[1].t = "string" THEN <<0>> ELSE <<>>) \o ToKey(Tail(vs))

\* B2v(from, to): the error, and the value *to holds afterwards (to of type *t).
\* binary.LittleEndian.Uint64 panics on fewer than 8 bytes.
B2v(from, t) ==
  IF t = "string" THEN [err |-> NoErr, v |-> Val("string", from)]
  ELSE IF t \in {"int64", "int", "uint64"} /\ Len(from) < 8
       THEN [err |-> "panic: index out of range", v |-> Val("none", <<>>)]
  ELSE IF t = "int64" THEN [err |-> NoErr, v |-> Val("int64", ToInt64(Uint64(from)))]
  ELSE IF t = "int" THEN [err |-> NoErr, v |-> Val("int", ToInt64(Uint64(from)))]
  ELSE IF t = "uint64" THEN [err |-> NoErr, v |-> Val("uint64", Uint64(from))]
  ELSE IF t = "nil" THEN [err |-> NoErr, v |-> Val("none", <<>>)]
  ELSE IF t = "map"
       THEN [err |-> UnmarshalMap(from).err, v |-> Val("map", UnmarshalMap(from).m)]
  ELSE [err |-> UnmarshalBytes(from).err, v |-> Val("bytes", UnmarshalBytes(from).v)]

(***************************************************************************)
(* The database: a function from the names of the buckets that exist to    *)
(* buckets, a bucket a function from its keys to their values.  Every      *)
(* operation runs inside one bolt transaction and takes the database d it  *)
(* sees; the ones that write return the database they leave.               *)
(***************************************************************************)
\* tx.Bucket(name) # nil
HasBucket(d, bucket) == bucket \in DOMAIN d

\* tx.CreateBucketIfNotExists(name) in a writable transaction: bolt refuses the
\* empty name.
CreateBucketIfNotExists(d, bucket) ==
  IF bucket = "" THEN [err |-> "bucket name required", db |-> d]
  ELSE IF HasBucket(d, bucket) THEN [err |-> NoErr, db |-> d]
  ELSE [err |-> NoErr,
        db |-> [n \in DOMAIN d \cup {bucket} |-> IF n = bucket THEN <<>> ELSE d[n]]]

\* b.Put(key, val) in bucket: bolt refuses the empty key.
BoltPut(d, bucket, key, val) ==
  IF key = <<>> THEN [err |-> "key required", db |-> d]
  ELSE [err |-> NoErr,
        db |-> [d EXCEPT ![bucket] =
                  [k \in DOMAIN d[bucket] \cup {key} |->
                     IF k = key THEN val ELSE d[bucket][k]]]]

\* b.Delete(key) in bucket: no error when the key is absent.
BoltDelete(d, bucket, key) ==
  [d EXCEPT ![bucket] = [k \in DOMAIN d[bucket] \ {key} |-> d[bucket][k]]]

\* The keys of the bucket in the order of b.ForEach and of the cursor.
KeysOf(d, bucket) == Ascending(DOMAIN d[bucket])

\* Get(tx, bucket, key, value), value a pointer to type t.
Get(d, bucket, key, t) ==
  IF ~HasBucket(d, bucket)
  THEN [err |-> "bucket not found " \o bucket, raw |-> <<>>, v |-> Val("none", <<>>)]
  ELSE IF key \notin DOMAIN d[bucket]
  THEN [err |-> "key not found", raw |-> <<>>, v |-> Val("none", <<>>)]
  ELSE [err |-> B2v(d[bucket][key], t).err, raw |-> d[bucket][key],
        v |-> B2v(d[bucket][key], t).v]

\* Put(tx, bucket, key, value).  When the bucket cannot be created it formats err,
\* the nil error of Tob, instead of errr, the error of the creation.
Put(d, bucket, key, value) ==
  IF Tob(value).err # NoErr THEN [err |-> Tob(value).err, db |-> d]
  ELSE IF CreateBucketIfNotExists(d, bucket).err # NoErr
  THEN [err |-> "create bucket: %!s(<nil>)", db |-> d]
  ELSE BoltPut(CreateBucketIfNotExists(d, bucket).db, bucket, key, Tob(value).b)

\* Batch(bucket, key, value): Put in a transaction of its own, which DB.Batch commits
\* when Put returns nil and rolls back, the creation of the bucket included, when it
\* returns an error.
Batch(d, bucket, key, value) ==
  IF Put(d, bucket, key, value).err = NoErr THEN Put(d, bucket, key, value)
  ELSE [err |-> Put(d, bucket, key, value).err, db |-> d]

\* HasKey(tx, bucket, key)
HasKey(d, bucket, key) == HasBucket(d, bucket) /\ key \in DOMAIN d[bucket]

\* The position c.Seek(prefix) puts the cursor at: the first key >= prefix, or past
\* the last key.
SeekPos(ks, prefix) ==
  IF \E i \in 1..Len(ks) : ~BytesLess(ks[i], prefix)
  THEN CHOOSE i \in 1..Len(ks) :
         /\ ~BytesLess(ks[i], prefix)
         /\ \A j \in 1..(i - 1) : BytesLess(ks[j], prefix)
  ELSE Len(ks) + 1

\* The loop  for k := c.Seek(prefix); bytes.HasPrefix(k, prefix); k = c.Next()  ends:
\* past the last key the cursor returns the nil key, again and again, and
\* bytes.HasPrefix(nil, prefix) is false unless prefix is empty.
Ends(prefix) == prefix # <<>>

\* What a call whose loop does not end returns: nothing.
NoReturn == "does not return"

\* The keys the loop visits from cursor position i on, for a prefix with which it
\* ends (past the last key, i > Len(ks), the key is nil).
RECURSIVE Visited(_, _, _)
Visited(ks, i, prefix) ==
  IF i > Len(ks) \/ ~HasPrefix(ks[i], prefix) THEN <<>>
  ELSE <<ks[i]>> \o Visited(ks, i + 1, prefix)

\* Count(tx, bucket, prefix)
Count(d, bucket, prefix) ==
  IF ~HasBucket(d, bucket) THEN [err |-> "bucket not found " \o bucket, n |-> 0]
  ELSE IF ~Ends(prefix) THEN [err |-> NoReturn, n |-> 0]
  ELSE [err |-> NoErr,
        n |-> Len(Visited(KeysOf(d, bucket), SeekPos(KeysOf(d, bucket), prefix), prefix))]

\* GetStrings(tx, bucket, prefix)
GetStrings(d, bucket, prefix) ==
  IF ~HasBucket(d, bucket) THEN [err |-> "bucket not found " \o bucket, strs |-> <<>>]
  ELSE IF ~Ends(prefix) THEN [err |-> NoReturn, strs |-> <<>>]
  ELSE LET ks == Visited(KeysOf(d, bucket), SeekPos(KeysOf(d, bucket), prefix), prefix)
       IN [err |-> NoErr,
           strs |-> [i \in 1..Len(ks) |-> B2v(d[bucket][ks[i]], "string").v.v]]

\* KeyStrings(tx, bucket)
KeyStrings(d, bucket) ==
  IF ~HasBucket(d, bucket) THEN [err |-> "bucket not found " \o bucket, strs |-> <<>>]
  ELSE [err |-> NoErr,
        strs |-> [i \in 1..Len(KeysOf(d, bucket)) |->
                    B2v(KeysOf(d, bucket)[i], "string").v.v]]

\* Del(tx, bucket, key)
Del(d, bucket, key) ==
  IF ~HasBucket(d, bucket) THEN [err |-> "bucket not found " \o bucket, db |-> d]
  ELSE [err |-> NoErr, db |-> BoltDelete(d, bucket, key)]

\* GetMap(tx, bucket, key)
GetMap(d, bucket, key) ==
  [err |-> Get(d, bucket, key, "map").err,
   rs |-> IF Get(d, bucket, key, "map").err = NoErr
          THEN Get(d, bucket, key, "map").v.v ELSE {}]

\* PutMap(tx, bucket, key, val)
PutMap(d, bucket, key, val) ==
  Put(d, bucket, key, Val("map", GetMap(d, bucket, key).rs \cup {val}))

\* DelMap(tx, bucket, key, val)
DelMap(d, bucket, key, val) ==
  IF GetMap(d, bucket, key).err # NoErr
  THEN [err |-> GetMap(d, bucket, key).err, db |-> d]
  ELSE IF GetMap(d, bucket, key).rs \ {val} = {} THEN Del(d, bucket, key)
  ELSE Put(d, bucket, key, Val("map", GetMap(d, bucket, key).rs \ {val}))

\* MapKeys(tx, bucket, key): the members, which it returns in the order of a range
\* over the map, that is in any order.
MapKeys(d, bucket, key) ==
  [err |-> GetMap(d, bucket, key).err, keys |-> GetMap(d, bucket, key).rs]

\* HasVal(tx, bucket, key, val)
HasVal(d, bucket, key, val) ==
  GetMap(d, bucket, key).err = NoErr /\ val \in GetMap(d, bucket, key).rs

RECURSIVE PrefixsFrom_NoSkip(_, _, _, _)
PrefixsFrom_NoSkip(ks, i, cnt, blast) ==
  IF i > Len(ks) THEN [err |-> NoErr, cnt |-> cnt]
  ELSE IF \A j \in 1..Len(ks[i]) : ks[i][j] # 0
       THEN [err |-> "not have string prefix", cnt |-> cnt]
  ELSE LET l == CHOOSE j \in 1..Len(ks[i]) :
                  ks[i][j] = 0 /\ \A n \in 1..(j - 1) : ks[i][n] # 0
       IN PrefixsFrom_NoSkip(ks, i + 1, Append(cnt, SubSeq(ks[i], 1, l - 1)),
                             SubSeq(ks[i], 1, l))

\* The ForEach of GetPrefixs from key i on; cnt and blast are what the callback has
\* built so far (blast = <<>> for nil: a prefix it sets is never empty).
RECURSIVE PrefixsFrom(_, _, _, _)
PrefixsFrom(ks, i, cnt, blast) ==
  IF i > Len(ks) THEN [err |-> NoErr, cnt |-> cnt]
  ELSE IF blast # <<>> /\ HasPrefix(ks[i], blast) THEN PrefixsFrom(ks, i + 1, cnt, blast)
  ELSE IF \A j \in 1..Len(ks[i]) : ks[i][j] # 0
       THEN [err |-> "not have string prefix", cnt |-> cnt]
  ELSE LET l == CHOOSE j \in 1..Len(ks[i]) :
                  ks[i][j] = 0 /\ \A n \in 1..(j - 1) : ks[i][n] # 0
       IN PrefixsFrom(ks, i + 1, Append(cnt, SubSeq(ks[i], 1, l - 1)), SubSeq(ks[i], 1, l))

\* GetPrefixs(tx, bucket)
GetPrefixs(d, bucket) ==
  IF ~HasBucket(d, bucket) THEN [err |-> "bucket not found " \o bucket, cnt |-> <<>>]
  ELSE PrefixsFrom(KeysOf(d, bucket), 1, <<>>, <<>>)

(***************************************************************************)
(* The set-membership calls on one bucket: PutMap, DelMap and MapKeys on   *)
(* some keys, with member strings that need no escape, that need one, and  *)
(* that are not valid UTF-8.  The bucket does not exist at the start.      *)
(***************************************************************************)
\* Keys the sets are stored at: <<1>>, ..., <<NMapKeys>>.
NMapKeys == 2
MapKeySet == {<<k>> : k \in 1..NMapKeys}

MapBucket == "scripthash"

\* The strings passed as val: "a", the quote character, and the byte FF.
Members == {<<97>>, <<34>>, <<255>>}

\* The strings that can be members of a stored set.
MemberStrings == Members \cup {RuneError}

NoDbRes == [op |-> "none"]

\* Package tx and the decoders are idle.
TxIdle ==
  /\ coins = <<>>
  /\ mutex = NoThread
  /\ pc = [t \in Threads |-> "idle"]
  /\ cur = [t \in Threads |-> 0]
  /\ idx = [t \in Threads |-> 0]
  /\ pend = [t \in Threads |-> NoPend]
  /\ loc = [t \in Threads |-> <<>>]
  /\ log = [t \in Threads |-> <<>>]
  /\ ret = [t \in Threads |-> "none"]
  /\ calls = 0
  /\ nAdd = 0
  /\ nRemOk = 0
  /\ seen = [t \in Threads |-> <<>>]
  /\ dscript = <<>>
  /\ dres = <<>>

\* The orders in which a range over a map with the keys S can list them.
Orders(S) ==
  {o \in [1..Cardinality(S) -> S] : \A i, j \in 1..Cardinality(S) : o[i] = o[j] => i = j}

DoPutMap(k, v) ==
  /\ db' = PutMap(db, MapBucket, k, v).db
  /\ dbres' = [op |-> "PutMap", key |-> k, val |-> v,
               err |-> PutMap(db, MapBucket, k, v).err, keys |-> <<>>]
  /\ UNCHANGED txvars

DoDelMap(k, v) ==
  /\ db' = DelMap(db, MapBucket, k, v).db
  /\ dbres' = [op |-> "DelMap", key |-> k, val |-> v,
               err |-> DelMap(db, MapBucket, k, v).err, keys |-> <<>>]
  /\ UNCHANGED txvars

DoMapKeys(k) ==
  /\ \E o \in Orders(MapKeys(db, MapBucket, k).keys) :
       dbres' = [op |-> "MapKeys", key |-> k, val |-> <<>>,
                 err |-> MapKeys(db, MapBucket, k).err, keys |-> o]
  /\ UNCHANGED <<db, txvars>>

MapInit == TxIdle /\ db = <<>> /\ dbres = NoDbRes

MapNext ==
  \/ \E k \in MapKeySet, v \in Members : DoPutMap(k, v)
  \/ \E k \in MapKeySet, v \in Members : DoDelMap(k, v)
  \/ \E k \in MapKeySet : DoMapKeys(k)

SpecMap == MapInit /\ [][MapNext]_vars

\* The step is the call op(k, v).
Called(op, k, v) == dbres'.op = op /\ dbres'.key = k /\ dbres'.val = v

\* The members of the set at key k in database d, as HasVal answers.
MembersIn(d, k) == {w \in MemberStrings : HasVal(d, MapBucket, k, w)}

(***************************************************************************)
(* C11: the value stored at one key behaves as a set over any sequence of  *)
(* PutMap and DelMap calls.  After PutMap(k, v), HasVal(k, v) is true and  *)
(* every earlier member is still a member; after a successful DelMap(k, v) *)
(* HasVal(k, v) is false and every other member is still a member; the     *)
(* DelMap that removes the last member deletes the key (HasKey is false);  *)
(* DelMap on a missing key or bucket returns an error and changes nothing; *)
(* MapKeys(k) lists exactly the current members, each once; and no call on *)
(* one key changes the set at another.                                     *)
(***************************************************************************)
C11_SetSemantics ==
  [][\A k \in MapKeySet, v \in Members :
       /\ Called("PutMap", k, v)
          => /\ dbres'.err = NoErr
             /\ HasVal(db', MapBucket, k, v)
             /\ MembersIn(db, k) \subseteq MembersIn(db', k)
             /\ \A j \in MapKeySet \ {k} : MembersIn(db', j) = MembersIn(db, j)
       /\ (Called("DelMap", k, v) /\ dbres'.err = NoErr)
          => /\ ~HasVal(db', MapBucket, k, v)
             /\ MembersIn(db, k) \ {v} \subseteq MembersIn(db', k)
             /\ MembersIn(db', k) \subseteq MembersIn(db, k)
             /\ MembersIn(db', k) = {} <=> ~HasKey(db', MapBucket, k)
             /\ \A j \in MapKeySet \ {k} : MembersIn(db', j) = MembersIn(db, j)
       /\ (Called("DelMap", k, v) /\ ~HasKey(db, MapBucket, k))
          => dbres'.err # NoErr /\ db' = db
       /\ (Called("MapKeys", k, <<>>) /\ dbres'.err = NoErr)
          => /\ {dbres'.keys[i] : i \in 1..Len(dbres'.keys)} = MembersIn(db, k)
             /\ Len(dbres'.keys) = Cardinality(MembersIn(db, k))]_vars

(***************************************************************************)
(* One bucket under composite keys: Put and Del of string values, and the  *)
(* scans Count, GetStrings and GetPrefixs.  A key is ToKey of a string and *)
(* at most one more component, or ToKey of one component that is not a     *)
(* string; the bucket does not exist at the start.                         *)
(***************************************************************************)
\* Entries the bucket holds at most.
MaxKeys == 2

KeyBucket == "key"

\* First components: "", "a", "ab".  None holds a NUL byte.
FirstStrs == {<<>>, <<97>>, <<97, 98>>}

\* Components after the first: the string "b", the int64 97 (whose encoding starts
\* with the bytes of "a" and a NUL).
Rests == {Val("string", <<98>>), Val("int64", Signed(FALSE, <<0, 0, 0, 97>>))}

\* The component lists of the keys whose first component is a string.
StringShapes ==
  {<<Val("string", t)>> : t \in FirstStrs}
  \cup {<<Val("string", t), r>> : t \in FirstStrs, r \in Rests}

\* The component lists of the keys without a string: raw bytes with no NUL, and the
\* int64 97.
OtherShapes ==
  {<<Val("bytes", <<99>>)>>, <<Val("int64", Signed(FALSE, <<0, 0, 0, 97>>))>>}

KeyShapes == StringShapes \cup OtherShapes

\* The values stored: the strings "x" and "y".
Stored == {<<120>>, <<121>>}

\* The component lists of the keys passed to Put and Batch: the ones above, and
\* none, ToKey() being the empty key, which bolt refuses.
PutShapes == KeyShapes \cup {<<>>}

\* The bucket holds at most MaxKeys entries with key in it.
Fits(key) ==
  Cardinality((IF HasBucket(db, KeyBucket) THEN DOMAIN db[KeyBucket] ELSE {})
              \cup (IF key = <<>> THEN {} ELSE {key})) <= MaxKeys

\* Put(tx, bucket, ToKey(c...), v) in the transaction of the caller
DoPut(c, v) ==
  /\ Fits(ToKey(c))
  /\ db' = Put(db, KeyBucket, ToKey(c), Val("string", v)).db
  /\ dbres' = [op |-> "Put", arg |-> c,
               err |-> Put(db, KeyBucket, ToKey(c), Val("string", v)).err,
               n |-> 0, out |-> <<>>]
  /\ UNCHANGED txvars

\* Batch(bucket, ToKey(c...), v)
DoBatch(c, v) ==
  /\ Fits(ToKey(c))
  /\ db' = Batch(db, KeyBucket, ToKey(c), Val("string", v)).db
  /\ dbres' = [op |-> "Batch", arg |-> c,
               err |-> Batch(db, KeyBucket, ToKey(c), Val("string", v)).err,
               n |-> 0, out |-> <<>>]
  /\ UNCHANGED txvars

\* Del(tx, bucket, ToKey(c...))
DoDel(c) ==
  /\ db' = Del(db, KeyBucket, ToKey(c)).db
  /\ dbres' = [op |-> "Del", arg |-> c, err |-> Del(db, KeyBucket, ToKey(c)).err,
               n |-> 0, out |-> <<>>]
  /\ UNCHANGED txvars

\* Count(tx, bucket, ToKey(s))
DoCount(s) ==
  /\ dbres' = [op |-> "Count", arg |-> s,
               err |-> Count(db, KeyBucket, ToKey(<<Val("string", s)>>)).err,
               n |-> Count(db, KeyBucket, ToKey(<<Val("string", s)>>)).n, out |-> <<>>]
  /\ UNCHANGED <<db, txvars>>

\* GetStrings(tx, bucket, ToKey(s))
DoGetStrings(s) ==
  /\ dbres' = [op |-> "GetStrings", arg |-> s,
               err |-> GetStrings(db, KeyBucket, ToKey(<<Val("string", s)>>)).err,
               n |-> 0,
               out |-> GetStrings(db, KeyBucket, ToKey(<<Val("string", s)>>)).strs]
  /\ UNCHANGED <<db, txvars>>

\* GetPrefixs(tx, bucket)
DoGetPrefixs ==
  /\ dbres' = [op |-> "GetPrefixs", arg |-> <<>>,
               err |-> GetPrefixs(db, KeyBucket).err,
               n |-> 0, out |-> GetPrefixs(db, KeyBucket).cnt]
  /\ UNCHANGED <<db, txvars>>

KeysInit == TxIdle /\ db = <<>> /\ dbres = NoDbRes

KeysNext ==
  \/ \E c \in PutShapes, v \in Stored : DoPut(c, v)
  \/ \E c \in PutShapes, v \in Stored : DoBatch(c, v)
  \/ \E c \in KeyShapes : DoDel(c)
  \/ \E s \in FirstStrs : DoCount(s)
  \/ \E s \in FirstStrs : DoGetStrings(s)
  \/ DoGetPrefixs

SpecKeys == KeysInit /\ [][KeysNext]_vars

\* The keys of the bucket.
BucketKeys == IF HasBucket(db, KeyBucket) THEN DOMAIN db[KeyBucket] ELSE {}

\* Every key of the bucket was made from a string first component.
StringKeyed == BucketKeys \subseteq {ToKey(c) : c \in StringShapes}

\* The keys of the bucket whose first component is the string s.
KeysWithFirst(s) == BucketKeys \cap {ToKey(c) : c \in {x \in StringShapes : x[1].v = s}}

(***************************************************************************)
(* C12: composite keys are prefix-safe for string components.  For strings *)
(* s and t without a NUL byte, ToKey(s) is a prefix of ToKey(t, rest...)   *)
(* only if s = t; so, in a bucket whose keys all start with a string       *)
(* component, Count with prefix ToKey(s) counts exactly the keys whose     *)
(* first component is s, and GetStrings returns exactly their values, in   *)
(* key order.                                                              *)
(***************************************************************************)
C12_PrefixSafe ==
  /\ \A s \in FirstStrs, c \in StringShapes :
       HasPrefix(ToKey(c), ToKey(<<Val("string", s)>>)) => c[1].v = s
  /\ (dbres.op = "Count" /\ HasBucket(db, KeyBucket) /\ StringKeyed)
     => dbres.err = NoErr /\ dbres.n = Cardinality(KeysWithFirst(dbres.arg))
  /\ (dbres.op = "GetStrings" /\ HasBucket(db, KeyBucket) /\ StringKeyed)
     => /\ dbres.err = NoErr
        /\ dbres.out = [i \in 1..Cardinality(KeysWithFirst(dbres.arg)) |->
                          db[KeyBucket][Ascending(KeysWithFirst(dbres.arg))[i]]]

\* The bucket holds a key with first component "a" and the key of "ab" alone, whose
\* bytes start with the bytes of "a"; Count for "a" has counted one key.
C12_Witness ==
  /\ dbres.op = "Count" /\ dbres.arg = <<97>> /\ dbres.n = 1
  /\ ToKey(<<Val("string", <<97, 98>>)>>) \in BucketKeys
  /\ Cardinality(BucketKeys) = 2

\* Key k holds a NUL byte.
HasNul(k) == \E j \in 1..Len(k) : k[j] = 0

\* The leading string component of a key with a NUL byte, with its terminator: the
\* bytes up to the first NUL.
Leading(k) ==
  SubSeq(k, 1, CHOOSE j \in 1..Len(k) : k[j] = 0 /\ \A n \in 1..(j - 1) : k[n] # 0)

\* The distinct leading components of the keys of the bucket, in key order.
LeadingInOrder ==
  LET ls == Ascending({Leading(k) : k \in {x \in BucketKeys : HasNul(x)}})
  IN [i \in 1..Len(ls) |-> SubSeq(ls[i], 1, Len(ls[i]) - 1)]

(***************************************************************************)
(* C20: GetPrefixs, over the keys of a bucket in ascending byte order,     *)
(* returns each distinct NUL-terminated leading string component of the    *)
(* keys exactly once, in key order; and it returns the error 'not have     *)
(* string prefix' when it reaches a key without a NUL byte, which happens  *)
(* exactly when the bucket holds such a key (a key without NUL extends no  *)
(* reported prefix, since a reported prefix ends with a NUL).              *)
(***************************************************************************)
C20_GetPrefixs ==
  (dbres.op = "GetPrefixs" /\ HasBucket(db, KeyBucket))
  => IF \E k \in BucketKeys : ~HasNul(k)
     THEN dbres.err = "not have string prefix"
     ELSE /\ dbres.err = NoErr
          /\ dbres.out = LeadingInOrder
          /\ \A i, j \in 1..Len(dbres.out) : dbres.out[i] = dbres.out[j] => i = j

\* GetPrefixs has returned the one prefix "a" for a bucket with two keys that start
\* with the string "a".
C20_Witness ==
  /\ dbres.op = "GetPrefixs" /\ dbres.err = NoErr
  /\ dbres.out = << <<97>> >>
  /\ Cardinality(BucketKeys) = 2
  /\ Cardinality(KeysWithFirst(<<97>>)) = 2

(***************************************************************************)
(* The encoding of values: Tob applied to a value of one of the types it   *)
(* encodes itself, then B2v applied to the bytes with a target of the      *)
(* value's type.  dbres holds the value, the bytes and what B2v left in    *)
(* the target.                                                             *)
(***************************************************************************)
\* Longest string and longest raw byte slice encoded.
MaxBytes == 2

\* The bytes of the strings and slices: NUL, the quote, a letter, and a byte of no
\* UTF-8 encoding.
ByteValues == {0, 34, 97, 255}

\* The 16-bit limbs of the integers: the ends of the range, and the values around a
\* carry into the next byte and into the sign bit.
LimbValues == {0, 1, 255, 256, 32768, 65535}

ByteSeqs == UNION {[1..n -> ByteValues] : n \in 0..MaxBytes}

Uint64s == [1..4 -> LimbValues]

\* The int64 values: magnitudes up to 2^63 - 1, and down to -2^63; zero has no sign.
Int64s ==
  {Signed(FALSE, m) : m \in {u \in Uint64s : u[1] < Limb \div 2}}
  \cup {Signed(TRUE, m) : m \in {u \in Uint64s :
                                   /\ u # <<0, 0, 0, 0>>
                                   /\ u[1] < Limb \div 2 \/ u = <<Limb \div 2, 0, 0, 0>>}}

\* The values Tob encodes without json.Marshal (int has 64 bits).
CodecValues ==
  {Val("int", i) : i \in Int64s} \cup {Val("int64", i) : i \in Int64s}
  \cup {Val("uint64", u) : u \in Uint64s}
  \cup {Val("string", s) : s \in ByteSeqs} \cup {Val("bytes", s) : s \in ByteSeqs}

NoVal == Val("none", <<>>)

\* b, err := Tob(v)
DoTob ==
  /\ dbres.op = "value"
  /\ dbres' = [dbres EXCEPT !.op = "Tob", !.b = Tob(dbres.v).b, !.err = Tob(dbres.v).err]
  /\ UNCHANGED <<txvars, db>>

\* var to T; err := B2v(b, &to), T the type of v
DoB2v ==
  /\ dbres.op = "Tob"
  /\ dbres' = [dbres EXCEPT !.op = "B2v",
                            !.err = B2v(dbres.b, dbres.v.t).err,
                            !.to = B2v(dbres.b, dbres.v.t).v]
  /\ UNCHANGED <<txvars, db>>

CodecInit ==
  /\ TxIdle
  /\ db = <<>>
  /\ \E v \in CodecValues :
       dbres = [op |-> "value", v |-> v, b |-> <<>>, err |-> NoErr, to |-> NoVal]

CodecNext == DoTob \/ DoB2v

SpecCodec == CodecInit /\ [][CodecNext]_vars

\* The two's-complement pattern of a signed value, from its definition: the value
\* itself when it is not negative, 2^64 minus its magnitude when it is.
RECURSIVE Borrow(_, _)
Borrow(m, i) == IF i > 4 THEN 0 ELSE IF m[i] # 0 THEN 1 ELSE Borrow(m, i + 1)

Pattern(t) ==
  IF t[1] = 0 THEN Tail(t)
  ELSE LET m == Tail(t)
       IN [i \in 1..4 |-> IF Borrow(m, i + 1) = 1 THEN Limb - 1 - m[i]
                          ELSE (Limb - m[i]) % Limb]

\* Byte n (1 the first) of the little-endian encoding of pattern u: bits
\* 8(n-1)..8(n-1)+7.
LittleEndianByte(u, n) ==
  LET limb == u[4 - (n - 1) \div 2]
  IN IF n % 2 = 1 THEN limb % 256 ELSE limb \div 256

\* Tob(v) is as C13 says: 8 little-endian bytes for the integers, the value's bytes for
\* strings and raw bytes.
EncodedAsClaimed(v, b) ==
  IF v.t \in {"int", "int64"}
  THEN Len(b) = 8 /\ \A n \in 1..8 : b[n] = LittleEndianByte(Pattern(v.v), n)
  ELSE IF v.t = "uint64"
  THEN Len(b) = 8 /\ \A n \in 1..8 : b[n] = LittleEndianByte(v.v, n)
  ELSE b = v.v

(***************************************************************************)
(* C13: Tob encodes every int, int64 and uint64 value as exactly 8 bytes   *)
(* in little-endian order, negative values as their two's-complement       *)
(* pattern, and returns strings and raw bytes verbatim; and B2v applied to *)
(* Tob(v) with a target of the type of v reproduces v, for every value of  *)
(* these five types.                                                       *)
(***************************************************************************)
C13_RoundTrip ==
  /\ dbres.op \in {"Tob", "B2v"} => dbres.err = NoErr
  /\ dbres.op = "Tob" => EncodedAsClaimed(dbres.v, dbres.b)
  /\ dbres.op = "B2v" => dbres.to = dbres.v

\* C13 as amended: the encoding is as stated for all five types, and B2v reproduces
\* the integers and the strings; raw bytes it takes as JSON text, and either fails or
\* leaves other bytes in the target.
C13_RoundTripButBytes ==
  /\ dbres.op = "Tob" => dbres.err = NoErr /\ EncodedAsClaimed(dbres.v, dbres.b)
  /\ (dbres.op = "B2v" /\ dbres.v.t # "bytes") => dbres.err = NoErr /\ dbres.to = dbres.v
  /\ (dbres.op = "B2v" /\ dbres.v.t = "bytes") => dbres.err # NoErr \/ dbres.to # dbres.v

\* B2v has reproduced -2^63 from the bytes 00 00 00 00 00 00 00 80.
C13_Witness ==
  /\ dbres.op = "B2v"
  /\ dbres.v = Val("int64", Signed(TRUE, <<Limb \div 2, 0, 0, 0>>))
  /\ dbres.b = <<0, 0, 0, 0, 0, 0, 0, 128>>
  /\ dbres.to = dbres.v

====
